---- MODULE Spec2Model ----
(***************************************************************************)
(* Access Menu (NVDA add-on, addon/globalPlugins/accessMenu/__init__.py).  *)
(*                                                                         *)
(* The model covers the stack of modal dialogs (Root, Apps, Power,         *)
(* Settings, Search), the launch code at its three call sites, the power   *)
(* confirmation, the four-strategy "God Mode" enumeration and invocation   *)
(* chains with their temporary files, and the STA worker thread.           *)
(*                                                                         *)
(* Strings that the code strips, case-folds or sorts are sequences of      *)
(* one-character strings.  The UI thread is a single process whose         *)
(* position is pc: "idle" while it sits in the event loop of the top       *)
(* dialog, another value while a handler is inside an enumeration or       *)
(* invocation chain.                                                       *)
(***************************************************************************)
EXTENDS Integers, Sequences, FiniteSets, TLC

\* ------------------------------------------------------------------ bounds
MaxItems == 2
MaxStack == 2
MaxFiles == 3
MaxThreads == 2
MaxDepth == 2
MaxWalkFiles == 3
NumRoots == 2
MaxFavorites == 3

\* ----------------------------------------------------------------- strings
Chars == {"a", "A", "b", " "}

\* the lines a helper, a script or the COM namespace can deliver: empty, blank,
\* names that differ only by case, a name that sorts after them
Lines == {<< >>, <<" ">>, <<"a">>, <<"A">>, <<"b">>}

Payloads == UNION {[1..n -> Lines] : n \in 0..MaxItems}

\* str.casefold on one character
CharFold(c) == IF c = "A" THEN "a" ELSE c

\* str.casefold
Casefold(s) == [i \in 1..Len(s) |-> CharFold(s[i])]

\* code point of a character (ord)
CharOrd(c) ==
    IF c = " " THEN 32 ELSE IF c = "(" THEN 40 ELSE IF c = ")" THEN 41
    ELSE IF c \in {"0", "1", "2", "3", "4", "5", "6", "7", "8", "9"}
    THEN 48 + (CHOOSE d \in 0..9 : <<"0", "1", "2", "3", "4", "5", "6", "7", "8", "9">>[d + 1] = c)
    ELSE IF c = "A" THEN 65 ELSE IF c = "\\" THEN 92 ELSE IF c = "a" THEN 97
    ELSE IF c = "g" THEN 103 ELSE 98

\* Python's str < str: lexicographic by code point, a proper prefix is less
RECURSIVE StrLess(_, _)
StrLess(s, t) ==
    IF t = << >> THEN FALSE
    ELSE IF s = << >> THEN TRUE
    ELSE IF CharOrd(Head(s)) # CharOrd(Head(t)) THEN CharOrd(Head(s)) < CharOrd(Head(t))
    ELSE StrLess(Tail(s), Tail(t))

RECURSIVE LStrip(_)
LStrip(s) == IF s # << >> /\ Head(s) = " " THEN LStrip(Tail(s)) ELSE s

RECURSIVE RStrip(_)
RStrip(s) == IF s # << >> /\ s[Len(s)] = " " THEN RStrip(SubSeq(s, 1, Len(s) - 1)) ELSE s

\* str.strip
Strip(s) == RStrip(LStrip(s))

\* the value None, kept apart from every string over Chars
None == <<"<None>">>

\* item.Name raising inside the COM enumeration loop
NameRaises == <<"<raises>">>

\* one step of a stable insertion: put item x after every element whose key is <= its key
RECURSIVE InsertSorted(_, _)
InsertSorted(x, seq) ==
    IF seq = << >> THEN <<x>>
    ELSE IF StrLess(Casefold(x[1]), Casefold(Head(seq)[1])) THEN <<x>> \o seq
    ELSE <<Head(seq)>> \o InsertSorted(x, Tail(seq))

\* results.sort(key=lambda kv: kv[0].casefold()): stable sort of (name, item) pairs
RECURSIVE SortItems(_)
SortItems(seq) ==
    IF seq = << >> THEN << >>
    ELSE InsertSorted(seq[Len(seq)], SortItems(SubSeq(seq, 1, Len(seq) - 1)))

\* for line in payload.splitlines(): name = line.strip(); if name: results.append((name, name))
RECURSIVE ParseLines(_)
ParseLines(lines) ==
    IF lines = << >> THEN << >>
    ELSE (IF Strip(Head(lines)) # << >> THEN << <<Strip(Head(lines)), Strip(Head(lines))>> >> ELSE << >>)
         \o ParseLines(Tail(lines))

\* not payload.strip(): the payload holds nothing but whitespace
PayloadBlank(lines) == \A i \in 1..Len(lines) : Strip(lines[i]) = << >>

\* the payloads a strategy can read: of the payloads that hold the same names
\* in the same order, which differ in blank lines only and take a strategy
\* along the same path, one with as many lines as any
DistinctPayloads ==
    {CHOOSE p \in Payloads :
        /\ ParseLines(p) = names
        /\ \A q \in Payloads : ParseLines(q) = names => Len(q) <= Len(p) :
     names \in {ParseLines(q) : q \in Payloads}}

\* a loop that keeps every name
DedupItemsKeepAll(seq, seen) == seq

\* helper: "Deduplicate while preserving order" by case-folded name (seen set)
RECURSIVE DedupItems(_, _)
DedupItems(seq, seen) ==
    IF seq = << >> THEN << >>
    ELSE IF Casefold(Head(seq)[1]) \in seen THEN DedupItems(Tail(seq), seen)
    ELSE <<Head(seq)>> \o DedupItems(Tail(seq), seen \cup {Casefold(Head(seq)[1])})


\* ------------------------------------------------------------- menu tree
\* A dict of _build_tree is a sequence of entries in insertion order, each
\* [name, dir, val]: val is the child dict when dir, else the shortcut path.
Leaf(name, path) == [name |-> name, dir |-> FALSE, val |-> path]

Folder(name, kids) == [name |-> name, dir |-> TRUE, val |-> kids]

\* results of _build_tree used by the dialogs
Trees ==
    { << >>,
      << Leaf(<<"b">>, "P1"), Folder(<<"A">>, << Leaf(<<"a">>, "P2") >>) >> }

\* an insertion that puts an entry in front of the entries with an equal key
RECURSIVE InsertEntryBeforeEqual(_, _)
InsertEntryBeforeEqual(x, seq) ==
    IF seq = << >> THEN <<x>>
    ELSE IF ~StrLess(Casefold(Head(seq).name), Casefold(x.name)) THEN <<x>> \o seq
    ELSE <<Head(seq)>> \o InsertEntryBeforeEqual(x, Tail(seq))

\* one insertion of the stable sort of dict entries by case-folded name
RECURSIVE InsertEntry(_, _)
InsertEntry(x, seq) ==
    IF seq = << >> THEN <<x>>
    ELSE IF StrLess(Casefold(x.name), Casefold(Head(seq).name)) THEN <<x>> \o seq
    ELSE <<Head(seq)>> \o InsertEntry(x, Tail(seq))

\* _sorted_items: sorted(mapping.items(), key=lambda kv: kv[0].casefold())
RECURSIVE SortedItems(_)
SortedItems(mapping) ==
    IF mapping = << >> THEN << >>
    ELSE InsertEntry(mapping[Len(mapping)], SortedItems(SubSeq(mapping, 1, Len(mapping) - 1)))

\* prefix.rstrip("\\")
RECURSIVE RStripBackslash(_)
RStripBackslash(s) ==
    IF s # << >> /\ s[Len(s)] = "\\" THEN RStripBackslash(SubSeq(s, 1, Len(s) - 1)) ELSE s

\* _flatten_apps over an already sorted list of entries
RECURSIVE FlattenSorted(_, _)
FlattenSorted(entries, prefix) ==
    IF entries = << >> THEN << >>
    ELSE LET e == Head(entries) IN
         (IF e.dir
          THEN FlattenSorted(SortedItems(e.val), prefix \o e.name \o <<"\\">>)
          ELSE << <<(IF prefix # << >>
                     THEN e.name \o <<" ", "(">> \o RStripBackslash(prefix) \o <<")">>
                     ELSE e.name),
                    e.val>> >>)
         \o FlattenSorted(Tail(entries), prefix)

\* a flattening that lists the shortcuts of the top level and enters no folder
FlattenAppsTopLevel(tree, prefix) ==
    FlattenSorted(SelectSeq(SortedItems(tree), LAMBDA e : ~e.dir), prefix)

\* _flatten_apps(tree, prefix)
FlattenApps(tree, prefix) == FlattenSorted(SortedItems(tree), prefix)

\* ------------------------------------------------- building the menu tree
\* str(i) of f"{name} ({i})"
RECURSIVE IntStr(_)
IntStr(i) ==
    IF i < 10 THEN << <<"0", "1", "2", "3", "4", "5", "6", "7", "8", "9">>[i + 1] >>
    ELSE IntStr(i \div 10) \o IntStr(i % 10)

\* f"{name} ({i})"
Suffixed(name, i) == name \o <<" ", "(">> \o IntStr(i) \o <<")">>

\* the keys of a dict
Names(node) == {node[i].name : i \in 1..Len(node)}

\* while f"{name} ({i})" in existing: i += 1
RECURSIVE UniqueSuffix(_, _, _)
UniqueSuffix(name, existing, i) ==
    IF Suffixed(name, i) \in existing THEN UniqueSuffix(name, existing, i + 1)
    ELSE Suffixed(name, i)

\* a naming that keeps the base name whatever the node holds
UniqueNameAsIs(name, existing) == name

\* _unique_name
UniqueName(name, existing) ==
    IF name \notin existing THEN name ELSE UniqueSuffix(name, existing, 2)

\* ext.lower() for the extensions of FileNames
ExtLower(ext) == IF ext = ".URL" THEN ".url" ELSE ext

\* APP_EXTENSIONS
AppExtensions == {".lnk", ".url", ".appref-ms"}

\* a file of a walked directory: os.path.splitext(filename)
File(base, ext) == [base |-> base, ext |-> ext]

\* os.path.join(dirpath, filename): dirpath is the directory the root names
\* followed by the relative parts, so two candidate roots that name one
\* directory give one and the same string for a file
Path(dir, parts, f) == [root |-> dir, parts |-> parts, base |-> f.base, ext |-> f.ext]

\* node[name] = value: a key the dict holds keeps its place and gets the new value
DictSet(node, name, entry) ==
    IF name \in Names(node)
    THEN [i \in 1..Len(node) |-> IF node[i].name = name THEN entry ELSE node[i]]
    ELSE Append(node, entry)

\* for filename in filenames: ... node[name] = path
RECURSIVE AddFiles(_, _, _, _)
AddFiles(node, files, dir, parts) ==
    IF files = << >> THEN node
    ELSE IF ExtLower(Head(files).ext) \notin AppExtensions
    THEN AddFiles(node, Tail(files), dir, parts)
    ELSE LET name == UniqueName(Head(files).base, Names(node)) IN
         AddFiles(DictSet(node, name, Leaf(name, Path(dir, parts, Head(files)))),
                  Tail(files), dir, parts)

\* whether the loop over filenames reaches "node[name] = path"
Launchable(files) == \E i \in 1..Len(files) : ExtLower(files[i].ext) \in AppExtensions

\* node.setdefault(part, {})
SetDefault(node, part) ==
    IF part \in Names(node) THEN node ELSE Append(node, Folder(part, << >>))

\* the body of the os.walk loop for one directory: the descent along parts
\* with setdefault, then the files.  A part that names a shortcut yields its
\* path string: str has no setdefault (AttributeError) and no item assignment
\* (TypeError), so a further part or a launchable file raises
RECURSIVE WalkEntry(_, _, _, _, _)
WalkEntry(node, rest, files, dir, parts) ==
    IF rest = << >> THEN [tree |-> AddFiles(node, files, dir, parts), raised |-> FALSE]
    ELSE LET node1 == SetDefault(node, Head(rest))
             i == CHOOSE k \in 1..Len(node1) : node1[k].name = Head(rest)
         IN IF node1[i].dir
            THEN LET r == WalkEntry(node1[i].val, Tail(rest), files, dir, parts) IN
                 [tree |-> [node1 EXCEPT ![i].val = r.tree], raised |-> r.raised]
            ELSE [tree |-> node1, raised |-> Tail(rest) # << >> \/ Launchable(files)]

\* what a candidate root can be: its environment variable is not set, the
\* Programs directory does not exist, it is a directory that cannot be listed,
\* or it is a directory os.walk can list
RootStatuses == {"unset", "missing", "unreadable", "dir"}

\* _start_menu_roots keeps a candidate: its variable is set and os.path.isdir
InStartMenuRoots(status) == status \in {"unreadable", "dir"}

WalkTopOnError(status) == IF status = "dir" THEN "yield" ELSE "raise"

\* os.walk(root) at the top of a root: it yields the directory when scandir
\* succeeds and ends without a word otherwise (onerror is None)
WalkTop(status) == IF status = "dir" THEN "yield" ELSE "end"

\* what "for root in _start_menu_roots(): for ... in os.walk(root)" does with a
\* candidate root
ScanRoot(status) == IF InStartMenuRoots(status) THEN WalkTop(status) ELSE "end"

\* names of the directories of a Start Menu
DirNames == {<<"g">>}

\* files a directory can hold
FileNames ==
    { File(<<"a">>, ".lnk"), File(<<"a">>, ".URL"), File(<<"A">>, ".lnk"),
      File(<<"a", " ", "(", "g", ")">>, ".lnk"), File(<<"g">>, ".lnk"), File(<<"a">>, ".txt") }

\* the filenames of one directory: no two equal when case is ignored
DirListings(n) ==
    {fs \in UNION {[1..k -> FileNames] : k \in 0..n} :
        \A i, j \in 1..Len(fs) :
           i # j => <<Casefold(fs[i].base), ExtLower(fs[i].ext)>>
                    # <<Casefold(fs[j].base), ExtLower(fs[j].ext)>>}

\* the number of shortcuts a tree holds
RECURSIVE CountLeaves(_)
CountLeaves(node) ==
    IF node = << >> THEN 0
    ELSE (IF Head(node).dir THEN CountLeaves(Head(node).val) ELSE 1) + CountLeaves(Tail(node))

\* ---------------------------------------------------------------- favorites
\* the paths that can be made favorites
FavPaths == 1..MaxFavorites

\* the list with the elements at the 0-based positions i and j exchanged
Swap(list, i, j) ==
    [k \in 1..Len(list) |-> IF k = i + 1 THEN list[j + 1]
                            ELSE IF k = j + 1 THEN list[i + 1]
                            ELSE list[k]]

\* add(path): appends if absent
FavAddPath(list, path) ==
    IF \E k \in 1..Len(list) : list[k] = path THEN list ELSE Append(list, path)

\* remove(path): removes the first exact match
FavRemovePath(list, path) ==
    IF \E k \in 1..Len(list) : list[k] = path
    THEN LET i == CHOOSE k \in 1..Len(list) :
                     list[k] = path /\ \A j \in 1..(k - 1) : list[j] # path
         IN SubSeq(list, 1, i - 1) \o SubSeq(list, i + 1, Len(list))
    ELSE list

\* moveUp(index) does nothing at index 0
MoveUpNoop(list, index) == index <= 0 \/ index >= Len(list)

\* moveDown(index) does nothing at the last index
MoveDownNoop(list, index) == index < 0 \/ index >= Len(list) - 1

\* moveUp(index): swap with the previous element
MoveUp(list, index) ==
    IF MoveUpNoop(list, index) THEN list ELSE Swap(list, index - 1, index)

MoveDownAsMoveUp(list, index) == MoveUp(list, index)

\* moveDown(index): swap with the next element
MoveDown(list, index) ==
    IF MoveDownNoop(list, index) THEN list ELSE Swap(list, index, index + 1)

\* an operation of the store: its argument, whether it was a boundary no-op,
\* and the list it found
FavRec(op, arg, noop, before) == [op |-> op, arg |-> arg, noop |-> noop, before |-> before]

\* ------------------------------------------------------------------ state
VARIABLES
    stack,      \* open modal dialogs, bottom first; the last one is interactive
    pc,         \* position of the UI thread
    last,       \* the handler or chain step that ran last, with the inputs it received
    procs,      \* processes spawned by the step that ran last
    announced,  \* ui.message texts spoken by the step that ran last
    log,        \* log records written by the step that ran last
    files,      \* temporary files that exist on disk
    helperMissingLogged,  \* _HELPER_EXE_MISSING_LOGGED
    results,    \* results of the enumeration chain so far
    started,    \* strategies the running chain has started, in order
    invName,    \* name handed to the running invocation chain
    tempPath,   \* temp_path of the strategy that ran last, 0 for None
    scriptPath, \* script_path of the strategy that ran last, 0 for None
    comtypesLoaded,  \* whether "import comtypes" succeeded (comtypes is not None)
    threads,    \* STA worker threads: id -> [pc, kind, value, ok, error, done]
    staTid,     \* the worker the UI thread waits for, 0 if none
    queued,     \* wx.CallAfter callbacks the event loop has not run yet, oldest first
    menuTree,   \* the dict _build_tree is filling
    walkRoot,   \* index of the root os.walk is in, 0 before the first
    walkParts,  \* relative parts of the directory os.walk yielded last
    flatApps,   \* what _flatten_apps returned for the finished tree
    catalogPc,  \* "walk" inside _build_tree, "done" after it, "raised" if it raised
    rootsSeen,  \* what _build_tree found at each candidate root so far, in order
    sameDir,    \* whether PROGRAMDATA and APPDATA name one and the same directory
    listed,     \* the shortcuts os.walk yielded in that directory, outermost first
    favorites,  \* the stored favorites list
    favLast,    \* the FavoritesStore operation that ran last
    favPrev     \* the FavoritesStore operation that ran before it

vars == <<stack, pc, last, procs, announced, log, files, helperMissingLogged,
          results, started, invName, tempPath, scriptPath, comtypesLoaded, threads, staTid,
          queued, menuTree, walkRoot, walkParts, flatApps, catalogPc, rootsSeen,
          sameDir, listed, favorites, favLast, favPrev>>

\* the state of the favorites store
favVars == <<favorites, favLast, favPrev>>

\* the state of the walk of the Start Menu roots
walkVars == <<menuTree, walkRoot, walkParts, flatApps, catalogPc, rootsSeen, sameDir, listed>>

\* the state of the shortcut catalog and of the favorites store, which the
\* dialogs' handlers leave alone
catalogVars == <<walkVars, favVars>>

\* ---------------------------------------------------------------- dialogs
\* rows put into the list box back to front
ListRowsReversed(filtered) ==
    [i \in 1..Len(filtered) |-> filtered[Len(filtered) + 1 - i][1]]

\* self.listBox.Clear(); for display, _path in self.filtered:
\* self.listBox.Append(display)
ListRows(filtered) == [i \in 1..Len(filtered) |-> filtered[i][1]]

\* a dialog: the rows it lists, the tree it was given and, for the search
\* dialog, self.apps and the rows of self.listBox (items is then self.filtered)
Screen(kind, items, tree) ==
    [kind |-> kind, items |-> items, tree |-> tree,
     apps |-> IF kind = "Search" THEN items ELSE << >>,
     listBox |-> IF kind = "Search" THEN ListRows(items) ELSE << >>]

Top == stack[Len(stack)]

\* a wx.MessageBox that waits for its answer: a modal window on top of the
\* others, with its own event loop; origin is the handler that waits in it
\* and action the power action it asks about
Prompt(origin, action) == Screen("Prompt", << <<origin, action>> >>, << >>)

\* the windows that were opened by a handler of their own: all but the
\* prompts a Power dialog waits in
Depth(s) == Len(SelectSeq(s, LAMBDA d : ~(d.kind = "Prompt" /\ d.items[1][1] = "PowerOK")))

\* wx.CallAfter(fn): a callback of the event loop; dialog is the position in
\* the stack of the dialog whose bound method it is, 0 for the plugin's
Callback(fn, dialog) == [fn |-> fn, dialog |-> dialog]

\* the event loop runs pending callbacks before it dispatches further input:
\* a handler of a dialog or of the popup menu starts with none pending
Idle == pc = "idle" /\ queued = << >>

\* the popup menu whose items _populate_apps_menu and _populate_power_menu
\* bind can be used: no modal window is open
MenuShown == stack = << >>

\* the queue after a dialog was created at position at of the stack: __init__
\* ends with wx.CallAfter(self._announce_dialog), except for
\* AccessMenuSearchDialog, which has no such method
QueueAnnounce(q, kind, at) ==
    IF kind = "Search" THEN q ELSE Append(q, Callback("announce_dialog", at))

\* AccessMenuDialog._populate_list
RootPopulate ==
    << <<"category", "apps">>, <<"category", "power">>, <<"category", "settings">> >>

\* AppsMenuDialog._populate_list: one ("app", path) per flattened entry
AppsPopulate(tree) ==
    LET apps == FlattenApps(tree, << >>) IN [i \in 1..Len(apps) |-> <<"app", apps[i][2]>>]

\* PowerMenuDialog._populate_list
PowerPopulate ==
    << <<"power", "signout">>, <<"power", "poweroff">>, <<"power", "reboot">> >>

\* the command line of a power action
PowerCommand(action) ==
    IF action = "signout" THEN "shutdown /l"
    ELSE IF action = "poweroff" THEN "shutdown /s /t 0"
    ELSE "shutdown /r /t 0"

\* self.EndModal(...): the dialog on top leaves its modal loop
EndModalSelf(s) == SubSeq(s, 1, Len(s) - 1)

\* self.EndModal(wx.ID_OK); if self.GetParent(): self.GetParent().EndModal(wx.ID_OK)
EndModalSelfAndParent(s) == SubSeq(s, 1, Len(s) - 2)

\* a Cancel that ends the parent's modal loop as well, as the OK handlers do
OnCancelStackCollapse(s) == EndModalSelfAndParent(s)

\* OnCancel of a submenu, and Close/Escape of the search dialog
OnCancelStack(s) == EndModalSelf(s)

LastRec(op, sel, answer, sf, po, raised) ==
    [op |-> op, sel |-> sel, answer |-> answer, sf |-> sf, po |-> po, raised |-> raised,
     exit |-> "none", query |-> None, shown |-> -1, rm |-> {}]

\* the record of an edit of the search box: the text of the box and the number
\* of rows the list showed before the edit
LastFilter(query, shown) ==
    [LastRec("SearchFilter", -1, "none", "none", "none", FALSE) EXCEPT
        !.query = query, !.shown = shown]

\* the record of a strategy step: the exit path it took and whether it raised
LastExit(op, exit, raised) ==
    [LastRec(op, -1, "none", "none", "none", raised) EXCEPT !.exit = exit]

\* the record of a strategy step that cleans up: rm holds the paths whose
\* os.remove raised, which the "except Exception: pass" around it swallowed
LastCleanup(op, exit, raised, rm) ==
    [LastExit(op, exit, raised) EXCEPT !.rm = rm]

\* try: os.startfile(path) / except OSError: subprocess.Popen(["cmd", "/c", "start", "", path])
\* sf, po are what the two calls do: "ok" or "oserror" (po is "none" when not reached)
Launch(path, sf, po) ==
    IF sf = "ok" THEN [procs |-> << <<"startfile", path>> >>, raised |-> FALSE]
    ELSE IF po = "ok" THEN [procs |-> << <<"cmd /c start", path>> >>, raised |-> FALSE]
    ELSE [procs |-> << >>, raised |-> TRUE]

\* the outcomes of the two calls of a launch
LaunchOutcomes == {<<"ok", "none">>, <<"oserror", "ok">>, <<"oserror", "oserror">>}


\* ---------------------------------------------------------- announcements
\* the text of row i of a dialog's list
RowText(screen, i) ==
    IF screen.kind = "Root"
    THEN (IF screen.items[i][2] = "apps" THEN <<"Apps">>
          ELSE IF screen.items[i][2] = "power" THEN <<"Power">> ELSE <<"Settings">>)
    ELSE IF screen.kind = "Power"
    THEN (IF screen.items[i][2] = "signout" THEN <<"Sign out">>
          ELSE IF screen.items[i][2] = "poweroff" THEN <<"Power off">> ELSE <<"Reboot">>)
    ELSE IF screen.kind = "Apps" THEN FlattenApps(screen.tree, << >>)[i][1]
    ELSE screen.items[i][1]

\* self.listCtrl.GetItemText(0) if count > 0 else ""
FirstItem(screen) == IF Len(screen.items) > 0 THEN RowText(screen, 1) ELSE << >>

\* the title a dialog is created with
ScreenTitle(kind) ==
    IF kind = "Root" THEN "Access Menu"
    ELSE IF kind = "Search" THEN "Search Apps"
    ELSE kind

\* a ui.message of _announce_dialog: the parts of its text; count is -1 when
\* the text holds no number
Announcement(title, count, first, noItems) ==
    [title |-> title, count |-> count, first |-> first, noItems |-> noItems]

\* a ui.message of a fixed text: no title and no number
Message(text) == Announcement("", -1, text, FALSE)

\* wx.CallAfter(self._announce_dialog) of a dialog that opens: Root and Power
\* say title and first row, Apps says the count as well, Settings says "No
\* items available." for no rows, title and row for the placeholder, else
\* count and first row; AccessMenuSearchDialog has no _announce_dialog
AnnounceDialog(screen) ==
    IF screen.kind \in {"Root", "Power"}
    THEN << Announcement(ScreenTitle(screen.kind), -1, FirstItem(screen), FALSE) >>
    ELSE IF screen.kind = "Apps"
    THEN << Announcement("Apps", Len(screen.items), FirstItem(screen), FALSE) >>
    ELSE IF screen.kind = "Settings"
    THEN (IF Len(screen.items) = 0
          THEN << Announcement("Settings", -1, << >>, TRUE) >>
          ELSE IF Len(screen.items) = 1 /\ screen.items[1][2] = None
          THEN << Announcement("Settings", -1, FirstItem(screen), FALSE) >>
          ELSE << Announcement("Settings", Len(screen.items), FirstItem(screen), FALSE) >>)
    ELSE << >>

\* --------------------------------------------------------------- handlers
\* a handler that runs to completion without entering a chain
NavStepQ(newStack, rec, newProcs, newAnnounced, newQueued) ==
    /\ stack' = newStack
    /\ queued' = newQueued
    /\ last' = rec
    /\ procs' = newProcs
    /\ announced' = newAnnounced
    /\ pc' = "idle"
    /\ log' = {}
    /\ results' = << >>
    /\ started' = << >>
    /\ invName' = None
    /\ tempPath' = 0
    /\ scriptPath' = 0
    /\ UNCHANGED <<files, helperMissingLogged, comtypesLoaded, catalogVars, threads, staTid>>

\* a handler that queues no callback
NavStep(newStack, rec, newProcs, newAnnounced) ==
    NavStepQ(newStack, rec, newProcs, newAnnounced, queued)

\* a handler that creates a dialog and enters its ShowModal
OpenStep(dialog, rec) ==
    NavStepQ(Append(stack, dialog), rec, << >>, << >>,
             QueueAnnounce(queued, dialog.kind, Len(stack) + 1))

\* the index GetFirstSelected() can return for a list of n rows: -1 is "no selection"
Selections(n) == -1 .. (n - 1)

\* the _show_dialog callbacks that wait in the queue
PendingShows(q) == Len(SelectSeq(q, LAMBDA c : c.fn = "show_dialog"))

\* script_openAccessMenu, the activation gesture: wx.CallAfter(self._show_dialog);
\* nothing tests whether a dialog is already open
ScriptOpenAccessMenu ==
    /\ pc = "idle"
    /\ Depth(stack) + PendingShows(queued) < MaxStack
    /\ NavStepQ(stack, LastRec("ScriptOpenAccessMenu", -1, "none", "none", "none", FALSE),
                << >>, << >>, Append(queued, Callback("show_dialog", 0)))

\* GlobalPlugin._show_dialog, run by the event loop: _build_tree() either
\* raises, and no dialog is created, or returns the tree the new Root is
\* built with; the new Root goes on top of the stack
ShowDialog ==
    /\ pc = "idle"
    /\ queued # << >>
    /\ Head(queued).fn = "show_dialog"
    /\ Depth(stack) < MaxStack
    /\ \/ NavStepQ(stack, LastRec("ShowDialog", -1, "none", "none", "none", TRUE),
                   << >>, << >>, Tail(queued))
       \/ \E tree \in Trees :
            NavStepQ(Append(stack, Screen("Root", RootPopulate, tree)),
                     LastRec("ShowDialog", -1, "none", "none", "none", FALSE), << >>, << >>,
                     QueueAnnounce(Tail(queued), "Root", Len(stack) + 1))

\* _announce_dialog of a dialog, run by the event loop: ui.message of the
\* title and the first row
AnnounceDialogCallback ==
    /\ pc = "idle"
    /\ queued # << >>
    /\ Head(queued).fn = "announce_dialog"
    /\ NavStepQ(stack, LastRec("AnnounceDialog", Head(queued).dialog, "none", "none", "none", FALSE),
                << >>, AnnounceDialog(stack[Head(queued).dialog]), Tail(queued))

\* AccessMenuDialog.OnOK, selection missing or Apps or Power
RootOK ==
    /\ Idle
    /\ stack # << >>
    /\ Top.kind = "Root"
    /\ \E sel \in Selections(Len(Top.items)) :
         /\ (IF sel < 0 THEN TRUE
             ELSE Top.items[sel + 1][2] \in {"apps", "power"} /\ Depth(stack) < MaxStack)
         /\ IF sel < 0
            THEN NavStep(EndModalSelf(stack),
                         LastRec("RootOK", sel, "none", "none", "none", FALSE), << >>, << >>)
            ELSE OpenStep(IF Top.items[sel + 1][2] = "apps"
                          THEN Screen("Apps", AppsPopulate(Top.tree), Top.tree)
                          ELSE Screen("Power", PowerPopulate, << >>),
                          LastRec("RootOK", sel, "none", "none", "none", FALSE))

\* AccessMenuDialog.OnCancel
RootCancel ==
    /\ Idle
    /\ stack # << >>
    /\ Top.kind = "Root"
    /\ NavStep(EndModalSelf(stack), LastRec("RootCancel", -1, "none", "none", "none", FALSE),
               << >>, << >>)

\* the stack after AppsMenuDialog.OnOK launched (or failed to launch) an app
AppsAfterLaunch(s, raised) == IF raised THEN s ELSE EndModalSelfAndParent(s)

\* AppsMenuDialog.OnOK
AppsOK ==
    /\ Idle
    /\ stack # << >>
    /\ Top.kind = "Apps"
    /\ \E sel \in Selections(Len(Top.items)), o \in LaunchOutcomes :
         IF sel < 0
         THEN /\ o = <<"ok", "none">>
              /\ NavStep(EndModalSelf(stack),
                         LastRec("AppsOK", sel, "none", "none", "none", FALSE), << >>, << >>)
         ELSE LET l == Launch(Top.items[sel + 1][2], o[1], o[2]) IN
              NavStep(AppsAfterLaunch(stack, l.raised),
                      LastRec("AppsOK", sel, "none", o[1], o[2], l.raised), l.procs, << >>)

\* AppsMenuDialog.OnCancel
AppsCancel ==
    /\ Idle
    /\ stack # << >>
    /\ Top.kind = "Apps"
    /\ NavStep(OnCancelStack(stack), LastRec("AppsCancel", -1, "none", "none", "none", FALSE),
               << >>, << >>)

\* a power handler that runs the command without looking at the answer
PowerSpawnUnconfirmed(action, answer, po) ==
    IF po # "oserror" THEN << <<"shutdown", PowerCommand(action)>> >> ELSE << >>

\* if result == wx.YES: subprocess.Popen(<command>): the processes a power
\* handler spawns for the answer to the prompt and the outcome po of Popen
PowerSpawn(action, answer, po) ==
    IF answer = "yes" /\ po = "ok" THEN << <<"shutdown", PowerCommand(action)>> >> ELSE << >>

\* the stack after PowerMenuDialog.OnOK got its answer
PowerAfterAnswer(s, answer, po) ==
    IF answer = "yes" /\ po = "ok" THEN EndModalSelfAndParent(s) ELSE s

\* what the prompt and Popen can do: Popen is reached only after a yes
PowerOutcomes == {<<"no", "none">>, <<"yes", "ok">>, <<"yes", "oserror">>}

\* PowerMenuDialog.OnOK up to wx.MessageBox: without a selection the dialog
\* closes, else the handler waits in the prompt for the answer
PowerOK ==
    /\ Idle
    /\ stack # << >>
    /\ Top.kind = "Power"
    /\ \E sel \in Selections(Len(Top.items)) :
         NavStep(IF sel < 0 THEN EndModalSelf(stack)
                 ELSE Append(stack, Prompt("PowerOK", Top.items[sel + 1][2])),
                 LastRec("PowerOK", sel, "none", "none", "none", FALSE), << >>, << >>)

\* PowerMenuDialog.OnOK from the answer of wx.MessageBox on: the prompt has
\* closed, a yes runs the command and closes the dialog and its parent
PowerAnswer ==
    /\ Idle
    /\ stack # << >>
    /\ Top.kind = "Prompt"
    /\ Top.items[1][1] = "PowerOK"
    /\ \E o \in PowerOutcomes :
         NavStep(PowerAfterAnswer(EndModalSelf(stack), o[1], o[2]),
                 LastRec("PowerAnswer", -1, o[1], "none", o[2], o[1] = "yes" /\ o[2] = "oserror"),
                 PowerSpawn(Top.items[1][2], o[1], o[2]), << >>)

\* PowerMenuDialog.OnCancel
PowerCancel ==
    /\ Idle
    /\ stack # << >>
    /\ Top.kind = "Power"
    /\ NavStep(OnCancelStack(stack), LastRec("PowerCancel", -1, "none", "none", "none", FALSE),
               << >>, << >>)

\* GlobalPlugin._confirm_and_run, the handler of a power item of the popup
\* menu, up to wx.MessageBox: the handler waits in the prompt for the answer
ConfirmAndRun ==
    /\ Idle
    /\ MenuShown
    /\ \E action \in {"signout", "poweroff", "reboot"} :
         NavStep(Append(stack, Prompt("ConfirmAndRun", action)),
                 LastRec("ConfirmAndRun", -1, "none", "none", "none", FALSE), << >>, << >>)

\* GlobalPlugin._confirm_and_run from the answer of wx.MessageBox on: the
\* prompt has closed, a yes runs the command
ConfirmAnswer ==
    /\ Idle
    /\ stack # << >>
    /\ Top.kind = "Prompt"
    /\ Top.items[1][1] = "ConfirmAndRun"
    /\ \E o \in PowerOutcomes :
         NavStep(EndModalSelf(stack),
                 LastRec("ConfirmAnswer", -1, o[1], "none", o[2], o[1] = "yes" /\ o[2] = "oserror"),
                 PowerSpawn(Top.items[1][2], o[1], o[2]), << >>)

\* GlobalPlugin._on_launch_app, the handler of an app item of the popup menu
OnLaunchApp ==
    /\ Idle
    /\ MenuShown
    /\ \E path \in {"", "P1"}, o \in LaunchOutcomes :
         IF path = ""
         THEN /\ o = <<"ok", "none">>
              /\ NavStep(stack, LastRec("OnLaunchApp", -1, "none", "none", "none", FALSE),
                         << >>, << >>)
         ELSE LET l == Launch(path, o[1], o[2]) IN
              NavStep(stack, LastRec("OnLaunchApp", 0, "none", o[1], o[2], l.raised),
                      l.procs, << >>)

\* GlobalPlugin._open_search_dialog: the dialog's parent is the main frame
OpenSearchDialog ==
    /\ Idle
    /\ MenuShown
    /\ \E tree \in Trees :
         OpenStep(Screen("Search", FlattenApps(tree, << >>), tree),
                  LastRec("OpenSearchDialog", -1, "none", "none", "none", FALSE))

\* query in item[0].casefold(): s holds q as a contiguous part
Contains(s, q) == \E i \in 0..(Len(s) - Len(q)) : SubSeq(s, i + 1, i + Len(q)) = q

\* a refresh that filters the rows the list shows at the moment
FilterSourceShown(screen) == screen.items

\* _refresh_list filters self.apps, the list the dialog was built with
FilterSource(screen) == screen.apps

\* a filter that matches the text of the box as typed, blanks included
FilterNoStrip(entries, query) ==
    IF query = << >> THEN entries
    ELSE SelectSeq(entries, LAMBDA item : Contains(Casefold(item[1]), Casefold(query)))

\* a filter that leaves out the first match
FilterSkipFirst(entries, query) ==
    LET q == Casefold(Strip(query))
        m == SelectSeq(entries, LAMBDA item : Contains(Casefold(item[1]), q))
    IN IF m = << >> THEN m ELSE Tail(m)

\* _refresh_list: query = query.strip().casefold(); all entries when it is
\* empty, else the entries whose case-folded display name contains it
Filter(entries, query) ==
    LET q == Casefold(Strip(query)) IN
    IF q = << >> THEN entries
    ELSE SelectSeq(entries, LAMBDA item : Contains(Casefold(item[1]), q))

\* texts of the search box
Queries == Lines \cup {<<"b", " ">>, <<"b", "a">>}

\* AccessMenuSearchDialog._on_filter: EVT_TEXT of the search box
SearchFilter ==
    /\ Idle
    /\ stack # << >>
    /\ Top.kind = "Search"
    /\ \E query \in Queries :
         LET filtered == Filter(FilterSource(Top), query) IN
         NavStep([stack EXCEPT ![Len(stack)].items = filtered,
                               ![Len(stack)].listBox = ListRows(filtered)],
                 LastFilter(query, Len(Top.items)), << >>, << >>)

\* the stack after AccessMenuSearchDialog._on_launch tried to launch
SearchAfterLaunch(s, raised) == IF raised THEN s ELSE EndModalSelf(s)

\* AccessMenuSearchDialog._on_launch
SearchLaunch ==
    /\ Idle
    /\ stack # << >>
    /\ Top.kind = "Search"
    /\ \E sel \in Selections(Len(Top.listBox)), o \in LaunchOutcomes :
         IF sel < 0 \/ sel >= Len(Top.items)
         THEN /\ o = <<"ok", "none">>
              /\ NavStep(stack, LastRec("SearchLaunch", sel, "none", "none", "none", FALSE),
                         << >>, << >>)
         ELSE LET l == Launch(Top.items[sel + 1][2], o[1], o[2]) IN
              NavStep(SearchAfterLaunch(stack, l.raised),
                      LastRec("SearchLaunch", sel, "none", o[1], o[2], l.raised), l.procs, << >>)

\* the Close button and Escape of the search dialog
SearchCancel ==
    /\ Idle
    /\ stack # << >>
    /\ Top.kind = "Search"
    /\ NavStep(OnCancelStack(stack), LastRec("SearchCancel", -1, "none", "none", "none", FALSE),
               << >>, << >>)


\* ------------------------------------------------- strategies: shared parts
\* for candidate in candidates: try: subprocess.run(...); break / except FileNotFoundError: continue
\* cand[i] is what running candidate i does: "fnf" (FileNotFoundError), "err"
\* (another exception) or "ran"; the result is "notfound", "error" or "ran"
RECURSIVE RunCandidates(_)
RunCandidates(cand) ==
    IF cand = << >> THEN "notfound"
    ELSE IF Head(cand) = "fnf" THEN RunCandidates(Tail(cand))
    ELSE IF Head(cand) = "err" THEN "error"
    ELSE "ran"

\* _get_powershell_candidates / _get_cscript_candidates: the Sysnative path comes
\* first under a 32-bit interpreter (sys.maxsize <= 2**32), then System32, then
\* the bare command name
GetCandidates(is32bit) ==
    IF is32bit THEN <<"Sysnative", "System32", "PATH">> ELSE <<"System32", "PATH">>

\* what running each candidate of the list does, for either interpreter width
CandidateOutcomes ==
    UNION {[1..Len(GetCandidates(is32bit)) -> {"fnf", "err", "ran"}] : is32bit \in BOOLEAN}

\* the results of the loop over the candidates
RunOutcomes == {RunCandidates(cand) : cand \in CandidateOutcomes}

\* the name tempfile / uuid hands out: a file that does not exist yet
FreshFile(fs) == CHOOSE i \in 1..(Cardinality(fs) + 1) : i \notin fs /\ \A j \in 1..(i - 1) : j \in fs

\* one entry of the record of a chain: the strategy, what it returned, whether it succeeded
Attempt(name, out, ok) == [name |-> name, out |-> out, ok |-> ok]

\* SettingsMenuDialog.__init__: the placeholder entry when nothing was found
EmptyItemLabel == <<"No settings items available">>

\* a dialog that lists what the enumeration returned and nothing else
SettingsItemsAsReturned(items) == items

\* if not self.items: self.items = [(self._empty_item, None)]
SettingsItems(items) == IF items = << >> THEN << <<EmptyItemLabel, None>> >> ELSE items

\* a chain that runs PowerShell after COM without testing what COM returned
EnumAfterNoStop(strategy, items) ==
    IF strategy = "com" THEN "enum_ps"
    ELSE IF items # << >> \/ strategy = "cscript" THEN "enum_finish"
    ELSE IF strategy = "helper" THEN "enum_com"
    ELSE "enum_cs"

\* _get_god_mode_items: where the chain goes after a strategy returned items
EnumAfter(strategy, items) ==
    IF items # << >> \/ strategy = "cscript" THEN "enum_finish"
    ELSE IF strategy = "helper" THEN "enum_com"
    ELSE IF strategy = "com" THEN "enum_ps"
    ELSE "enum_cs"

\* _get_god_mode_items: "else: results.sort(...)" runs when helper or COM delivered
EnumFinal(strategy, items) ==
    IF strategy \in {"helper", "com"} /\ items # << >> THEN SortItems(items) ELSE items

\* _get_god_mode_items: the record it writes itself once a strategy returned,
\* log.info for the strategy that delivered and log.warning when the last one
\* delivered nothing
ChainLog(strategy, items) ==
    IF items # << >>
    THEN {IF strategy = "helper" THEN "info: God Mode enumeration succeeded via helper exe"
          ELSE IF strategy = "com" THEN "info: God Mode enumeration succeeded via COM STA"
          ELSE IF strategy = "powershell" THEN "info: God Mode enumeration succeeded via PowerShell"
          ELSE "info: God Mode enumeration succeeded via cscript"}
    ELSE IF strategy = "cscript" THEN {"warning: God Mode enumeration returned no items"}
    ELSE {}

\* a strategy of the enumeration chain returned items, having written the
\* records slog: _get_god_mode_items goes on, and once it returns
\* SettingsMenuDialog.__init__ finishes and the dialog is shown
EnumReturn(strategy, items, slog) ==
    /\ log' = slog \cup ChainLog(strategy, items)
    /\ started' = Append(started, Attempt(strategy, items, items # << >>))
    /\ IF EnumAfter(strategy, items) = "enum_finish"
       THEN \E dialog \in {Screen("Settings", SettingsItems(EnumFinal(strategy, items)), << >>)} :
               /\ results' = EnumFinal(strategy, items)
               /\ stack' = Append(stack, dialog)
               /\ queued' = QueueAnnounce(queued, "Settings", Len(stack) + 1)
               /\ announced' = announced
               /\ pc' = "idle"
       ELSE /\ results' = items
            /\ stack' = stack
            /\ queued' = queued
            /\ announced' = announced
            /\ pc' = EnumAfter(strategy, items)

\* AccessMenuDialog.OnOK on the Settings category: SettingsMenuDialog.__init__
\* calls _get_god_mode_items, which starts with the helper strategy
RootOKSettings ==
    /\ Idle
    /\ stack # << >>
    /\ Top.kind = "Root"
    /\ Cardinality(files) + 3 <= MaxFiles
    /\ Depth(stack) < MaxStack
    /\ \E sel \in Selections(Len(Top.items)) :
         /\ sel >= 0
         /\ Top.items[sel + 1][2] = "settings"
         /\ last' = LastRec("RootOK", sel, "none", "none", "none", FALSE)
    /\ pc' = "enum_helper"
    /\ procs' = << >>
    /\ announced' = << >>
    /\ log' = {}
    /\ results' = << >>
    /\ started' = << >>
    /\ invName' = None
    /\ tempPath' = 0
    /\ scriptPath' = 0
    /\ UNCHANGED <<queued, stack, files, helperMissingLogged, comtypesLoaded, catalogVars, threads, staTid>>

\* ------------------------------------------------------- helper strategy
\* _get_god_mode_items_via_helper; exe is "missing" (no helper file), "oserror"
\* (subprocess.run raised OSError), "nonzero" (return code) or "ok"
HelperItems(exe, stdout) ==
    IF exe = "ok" THEN SortItems(DedupItems(ParseLines(stdout), {})) ELSE << >>

HelperLog(exe, stdout, missingLogged) ==
    IF exe = "missing" THEN (IF missingLogged THEN {} ELSE {"warning: helper exe not found"})
    ELSE IF exe = "oserror" THEN {"warning: helper exe failed to launch"}
    ELSE IF exe = "nonzero" THEN {"warning: helper exe failed"}
    ELSE IF ParseLines(stdout) = << >> THEN {"warning: helper exe returned no items"}
    ELSE {"info: helper exe returned items"}

HelperOutcomes == {"missing", "oserror", "nonzero", "ok"}

EnumHelper ==
    /\ pc = "enum_helper"
    /\ \E exe \in HelperOutcomes :
         \E stdout \in (IF exe = "ok" THEN DistinctPayloads ELSE {<< >>}) :
            /\ EnumReturn("helper", HelperItems(exe, stdout),
                          HelperLog(exe, stdout, helperMissingLogged))
            /\ helperMissingLogged' = (helperMissingLogged \/ exe = "missing")
            /\ procs' = IF exe \in {"nonzero", "ok"} THEN <<<<"helper", "">>>> ELSE << >>
    /\ last' = LastRec("EnumHelper", -1, "none", "none", "none", FALSE)
    /\ UNCHANGED <<files, invName, tempPath, scriptPath, comtypesLoaded, catalogVars, threads, staTid>>


\* ------------------------------------------------------ STA worker thread
\* _run_in_sta_thread: result = {"value": None, "error": None}; done = Event()
\* value holds an enumeration result, ok an invocation result; error is
\* "result['error'] is not None"
NoThread == [pc |-> "none", kind |-> "none", value |-> << >>, ok |-> FALSE,
             error |-> FALSE, done |-> FALSE]

NewThread(kind) == [NoThread EXCEPT !.pc = "start", !.kind = kind]

FreeThreads == {t \in 1..MaxThreads : threads[t].pc = "none"}

\* names read by the COM loop: a string, or item.Name raising
ComNames == UNION {[1..n -> Lines \cup {NameRaises}] : n \in 0..MaxItems}

\* for item in items: try: name = item.Name / except: continue; if name: results.append((name, name))
RECURSIVE ComItems(_)
ComItems(names) ==
    IF names = << >> THEN << >>
    ELSE (IF Head(names) # NameRaises /\ Head(names) # << >>
          THEN << <<Head(names), Head(names)>> >> ELSE << >>)
         \o ComItems(Tail(names))

\* action() of _get_god_mode_items_via_com_sta; o is what COM does: "raise"
\* (CoInitialize, CreateObject or NameSpace raised), "nofolder", "itemsraise", "ok"
ComEnumAction(o, names) ==
    IF o = "raise" THEN [NoThread EXCEPT !.error = TRUE]
    ELSE IF o = "ok" THEN [NoThread EXCEPT !.value = SortItems(ComItems(names))]
    ELSE NoThread

ComEnumOutcomes == {"raise", "nofolder", "itemsraise", "ok"}

\* action() of _invoke_god_mode_item_by_name; o is "raise", "nofolder", "noitem",
\* "verbraise" (InvokeVerb raised) or "ok"
ComInvokeAction(o, loaded) ==
    IF ~loaded THEN NoThread
    ELSE IF o = "raise" THEN [NoThread EXCEPT !.error = TRUE]
    ELSE IF o = "ok" THEN [NoThread EXCEPT !.ok = TRUE]
    ELSE NoThread

ComInvokeOutcomes == {"raise", "nofolder", "noitem", "verbraise", "ok"}

\* a worker that sets the event at the end of the try block only
WorkerSignalsOnSuccess(rec) == ~rec.error

\* runner(): "finally: ... done.set()": whether the worker sets the event
WorkerSignals(rec) == TRUE

\* done.wait(): whether the caller may go on
STAWaitOver(rec) == rec.done

\* the UI thread is inside a chain: handlers of the dialogs do not run
chainLocals == <<stack, last, procs, announced, log, files, helperMissingLogged, results,
                 started, invName, tempPath, scriptPath, comtypesLoaded, pc, staTid, queued, catalogVars>>

\* runner(): CoInitialize, result["value"] = action() / except: result["error"] = exc
WorkerRun ==
    \E t \in 1..MaxThreads :
       /\ threads[t].pc = "start"
       /\ \/ /\ threads[t].kind = "enum"
             /\ \E o \in ComEnumOutcomes :
                  \E names \in (IF o = "ok" THEN ComNames ELSE {<< >>}) :
                     threads' = [threads EXCEPT ![t] =
                        [ComEnumAction(o, names) EXCEPT !.pc = "finally", !.kind = "enum"]]
          \/ /\ threads[t].kind = "invoke"
             /\ \E o \in ComInvokeOutcomes :
                  threads' = [threads EXCEPT ![t] =
                     [ComInvokeAction(o, comtypesLoaded) EXCEPT !.pc = "finally", !.kind = "invoke"]]
       /\ UNCHANGED chainLocals

\* runner(): finally: CoUninitialize (its errors are swallowed); done.set(); the thread ends
WorkerFinish ==
    \E t \in 1..MaxThreads :
       /\ threads[t].pc = "finally"
       /\ threads' = [threads EXCEPT ![t] =
             IF staTid = t
             THEN [threads[t] EXCEPT !.pc = "exit", !.done = WorkerSignals(threads[t])]
             ELSE NoThread]
       /\ UNCHANGED chainLocals

\* _run_in_sta_thread up to done.wait(): thread.start()
STAStart(kind) ==
    /\ FreeThreads # {}
    /\ LET t == CHOOSE x \in FreeThreads : \A y \in FreeThreads : x <= y IN
         /\ threads' = [threads EXCEPT ![t] = NewThread(kind)]
         /\ staTid' = t

\* a caller that drops the captured error without a log record
STALogSilent(rec) == {}

\* _run_in_sta_thread after done.wait(): the log record for a captured error
STALog(rec) == IF rec.error THEN {"exception: STA thread action failed"} ELSE {}

\* the caller drops result and done; a worker that has not ended keeps running
STARelease == [threads EXCEPT ![staTid] = IF threads[staTid].pc = "exit" THEN NoThread ELSE @]

\* _get_god_mode_items_via_com_sta up to the wait
EnumCom ==
    /\ pc = "enum_com"
    /\ last' = LastRec("EnumCom", -1, "none", "none", "none", FALSE)
    /\ IF ~comtypesLoaded
       THEN /\ EnumReturn("com", << >>, {})
            /\ UNCHANGED <<threads, staTid>>
       ELSE /\ STAStart("enum")
            /\ pc' = "enum_com_wait"
            /\ log' = {}
            /\ UNCHANGED <<stack, results, started, announced, queued>>
    /\ procs' = << >>
    /\ UNCHANGED <<files, helperMissingLogged, invName, tempPath,
                   scriptPath, comtypesLoaded, catalogVars>>

\* _get_god_mode_items_via_com_sta after the wait: return result["value"] or []
EnumComResume ==
    /\ pc = "enum_com_wait"
    /\ STAWaitOver(threads[staTid])
    /\ EnumReturn("com", threads[staTid].value, STALog(threads[staTid]))
    /\ threads' = STARelease
    /\ staTid' = 0
    /\ last' = LastRec("EnumComResume", -1, "none", "none", "none", FALSE)
    /\ procs' = << >>
    /\ UNCHANGED <<files, helperMissingLogged, invName, tempPath,
                   scriptPath, comtypesLoaded, catalogVars>>


\* --------------------------------------------- PowerShell enumeration
\* _get_god_mode_items_via_powershell: the exit path for what the environment
\* does: tf (NamedTemporaryFile "ok"/"fail"), run (RunCandidates), rc (return
\* code), rd (reading the output: "ok", "fail", or "gone" when it does not exist)
PsExit(tf, run, rc, rd, payload) ==
    IF tf = "fail" THEN "tempfail"
    ELSE IF run = "notfound" THEN "notfound"
    ELSE IF run = "error" THEN "spawnerror"
    ELSE IF rc # 0 THEN "nonzero"
    ELSE IF rd = "gone" THEN "gone"
    ELSE IF rd = "fail" THEN "readfail"
    ELSE IF PayloadBlank(payload) THEN "blank"
    ELSE "ok"

PsItems(exit, payload) == IF exit = "ok" THEN SortItems(ParseLines(payload)) ELSE << >>

PsLog(exit) ==
    IF exit = "tempfail" THEN {"exception: failed to create temp file for PowerShell output"}
    ELSE IF exit = "notfound" THEN {"warning: PowerShell executable not found"}
    ELSE IF exit = "spawnerror" THEN {"exception: failed to run PowerShell"}
    ELSE IF exit = "nonzero" THEN {"warning: PowerShell God Mode enumeration failed"}
    ELSE IF exit = "readfail"
    THEN {"exception: failed to read PowerShell output file", "warning: PowerShell returned empty output"}
    ELSE IF exit \in {"gone", "blank"} THEN {"warning: PowerShell returned empty output"}
    ELSE {}

\* the paths os.remove is called on by the "finally" of the read: the output
\* file when it exists; the returns before the read do not reach the "finally"
PsRemoved(temp, exit) == IF exit \in {"readfail", "blank", "ok"} THEN {temp} ELSE {}

\* the files left when the strategy returns: try: os.remove(temp_path) /
\* except Exception: pass; rm holds the paths whose os.remove raised
PowershellCleanup(fs, temp, exit, rm) == fs \ (PsRemoved(temp, exit) \ rm)

\* what "with open(script_path, "w") as handle: handle.write(script)" can do:
\* succeed, raise in open() before the file exists, or raise in the write
\* after open() created it
WriteOutcomes == {"ok", "fail", "fail_after_create"}

\* the files on disk while a strategy runs: what it created (no script when
\* open() raised), less an output file that is gone when the strategy looks
\* for it
FilesDuring(fs, temp, script, exit, wr) ==
    (fs \cup (IF wr = "fail" THEN {} ELSE {script} \ {0}))
    \cup (IF exit = "gone" THEN {} ELSE {temp} \ {0})

EnumPowershell ==
    /\ pc = "enum_ps"
    /\ \E tf \in {"ok", "fail"} :
       \E run \in (IF tf = "ok" THEN RunOutcomes ELSE {"notfound"}) :
       \E rc \in (IF tf = "ok" /\ run = "ran" THEN {0, 1} ELSE {0}) :
       \E rd \in (IF tf = "ok" /\ run = "ran" /\ rc = 0
                  THEN {"ok", "fail", "gone"} ELSE {"ok"}) :
       \E payload \in (IF tf = "ok" /\ run = "ran" /\ rc = 0 /\ rd = "ok"
                       THEN DistinctPayloads ELSE {<< >>}) :
          LET exit == PsExit(tf, run, rc, rd, payload)
              temp == IF exit = "tempfail" THEN 0 ELSE FreshFile(files)
          IN \E rm \in SUBSET PsRemoved(temp, exit) :
             /\ EnumReturn("powershell", PsItems(exit, payload), PsLog(exit))
             /\ files' = PowershellCleanup(FilesDuring(files, temp, 0, exit, "ok"), temp, exit, rm)
             /\ tempPath' = temp
             /\ procs' = IF run = "ran" /\ tf = "ok"
                         THEN <<<<"powershell", "enumerate">>>> ELSE << >>
             /\ last' = LastCleanup("EnumPowershell", exit, FALSE, rm)
    /\ scriptPath' = 0
    /\ UNCHANGED <<helperMissingLogged, invName, comtypesLoaded, catalogVars, threads, staTid>>

\* ------------------------------------------------ cscript enumeration
\* _get_god_mode_items_via_cscript: the exit path; wr is writing the script file
CsExit(tf, wr, run, rc, rd, payload) ==
    IF tf = "fail" THEN "tempfail"
    ELSE IF wr # "ok" THEN "writefail"
    ELSE IF run = "notfound" THEN "notfound"
    ELSE IF run = "error" THEN "spawnerror"
    ELSE IF rc # 0 THEN "nonzero"
    ELSE IF rd = "gone" THEN "gone"
    ELSE IF rd = "fail" THEN "readfail"
    ELSE IF PayloadBlank(payload) THEN "blank"
    ELSE "ok"

\* the paths on which the exception leaves the function: the try has a
\* "finally" and no "except"; only FileNotFoundError of a candidate and the
\* read of the output are caught
CsRaises(exit) == exit \in {"tempfail", "writefail", "spawnerror"}

CsItems(exit, payload) == IF exit = "ok" THEN SortItems(ParseLines(payload)) ELSE << >>

CsLog(exit) ==
    IF exit = "notfound" THEN {"warning: cscript executable not found"}
    ELSE IF exit = "nonzero" THEN {"warning: cscript God Mode enumeration failed"}
    ELSE IF exit = "gone" THEN {"warning: cscript output file not created"}
    ELSE IF exit = "readfail" THEN {"exception: failed to read cscript output file"}
    ELSE IF exit = "blank" THEN {"warning: cscript returned empty output"}
    ELSE {}

\* the paths os.remove is called on by the "finally" of the function: each
\* of the two files when it exists (the script exists unless open() raised)
CsRemoved(temp, script, exit, wr) ==
    (IF exit \in {"tempfail", "gone"} THEN {} ELSE {temp})
    \cup (IF exit = "tempfail" \/ wr = "fail" THEN {} ELSE {script})

\* finally: try: os.remove(temp_path) / except Exception: pass, then the same
\* for script_path; rm holds the paths whose os.remove raised
CscriptCleanup(fs, temp, script, exit, wr, rm) ==
    (fs \ {temp, script}) \cup (CsRemoved(temp, script, exit, wr) \cap rm)

EnumCscript ==
    /\ pc = "enum_cs"
    /\ \E tf \in {"ok", "fail"} :
       \E wr \in (IF tf = "ok" THEN WriteOutcomes ELSE {"ok"}) :
       \E run \in (IF tf = "ok" /\ wr = "ok" THEN RunOutcomes ELSE {"notfound"}) :
       \E rc \in (IF tf = "ok" /\ wr = "ok" /\ run = "ran" THEN {0, 1} ELSE {0}) :
       \E rd \in (IF tf = "ok" /\ wr = "ok" /\ run = "ran" /\ rc = 0
                  THEN {"ok", "fail", "gone"} ELSE {"ok"}) :
       \E payload \in (IF tf = "ok" /\ wr = "ok" /\ run = "ran" /\ rc = 0 /\ rd = "ok"
                       THEN DistinctPayloads ELSE {<< >>}) :
          LET exit == CsExit(tf, wr, run, rc, rd, payload)
              temp == IF exit = "tempfail" THEN 0 ELSE FreshFile(files)
              script == IF exit = "tempfail" THEN 0 ELSE FreshFile(files \cup {temp})
          IN \E rm \in SUBSET CsRemoved(temp, script, exit, wr) :
             /\ IF CsRaises(exit)
                THEN /\ started' = Append(started, Attempt("cscript", << >>, FALSE))
                     /\ results' = << >>
                     /\ stack' = stack
                     /\ queued' = queued
                     /\ announced' = announced
                     /\ pc' = "idle"
                     /\ log' = CsLog(exit)
                ELSE EnumReturn("cscript", CsItems(exit, payload), CsLog(exit))
             /\ files' = CscriptCleanup(FilesDuring(files, temp, script, exit, wr), temp, script, exit, wr, rm)
             /\ tempPath' = temp
             /\ scriptPath' = script
             /\ procs' = IF tf = "ok" /\ wr = "ok" /\ run = "ran"
                         THEN <<<<"cscript", "enumerate">>>> ELSE << >>
             /\ last' = LastCleanup("EnumCscript", exit, CsRaises(exit), rm)
    /\ UNCHANGED <<helperMissingLogged, invName, comtypesLoaded, catalogVars, threads, staTid>>


\* ------------------------------------------------------ Settings dialog
\* SettingsMenuDialog.OnOK without a selection or on the placeholder entry
SettingsOK ==
    /\ Idle
    /\ stack # << >>
    /\ Top.kind = "Settings"
    /\ \E sel \in Selections(Len(Top.items)) :
         /\ (IF sel < 0 THEN TRUE ELSE Top.items[sel + 1][2] = None)
         /\ NavStep(IF sel < 0 THEN EndModalSelf(stack) ELSE stack,
                    LastRec("SettingsOK", sel, "none", "none", "none", FALSE), << >>,
                    IF sel < 0 THEN << >>
                    ELSE << Message(<<"No settings items available.">>) >>)

\* SettingsMenuDialog.OnCancel
SettingsCancel ==
    /\ Idle
    /\ stack # << >>
    /\ Top.kind = "Settings"
    /\ NavStep(OnCancelStack(stack), LastRec("SettingsCancel", -1, "none", "none", "none", FALSE),
               << >>, << >>)

\* SettingsMenuDialog.OnOK on an item: _invoke_god_mode_item_by_name(item) starts
SettingsOKInvoke ==
    /\ Idle
    /\ stack # << >>
    /\ Top.kind = "Settings"
    /\ Cardinality(files) + 2 <= MaxFiles
    /\ \E sel \in Selections(Len(Top.items)) :
         /\ sel >= 0
         /\ Top.items[sel + 1][2] # None
         /\ invName' = Top.items[sel + 1][2]
         /\ last' = LastRec("SettingsOK", sel, "none", "none", "none", FALSE)
    /\ pc' = "inv_helper"
    /\ procs' = << >>
    /\ announced' = << >>
    /\ log' = {}
    /\ results' = << >>
    /\ started' = << >>
    /\ tempPath' = 0
    /\ scriptPath' = 0
    /\ UNCHANGED <<queued, stack, files, helperMissingLogged, comtypesLoaded, catalogVars, threads, staTid>>

\* ------------------------------------------------------ invocation chain
\* _invoke_god_mode_item_by_name: where the chain goes after a strategy
InvAfter(strategy, ok) ==
    IF ok \/ strategy = "cscript" THEN "inv_finish"
    ELSE IF strategy = "helper" THEN "inv_com"
    ELSE IF strategy = "com" THEN "inv_ps"
    ELSE "inv_cs"

\* a strategy of the invocation chain ended; when the chain returns,
\* SettingsMenuDialog.OnOK closes the dialog and its parent
InvReturn(strategy, ok) ==
    /\ started' = Append(started, Attempt(strategy, << >>, ok))
    /\ IF InvAfter(strategy, ok) = "inv_finish"
       THEN /\ stack' = EndModalSelfAndParent(stack)
            /\ pc' = "idle"
       ELSE /\ stack' = stack
            /\ pc' = InvAfter(strategy, ok)

\* the exception of a strategy leaves _invoke_god_mode_item_by_name and OnOK
InvRaise(strategy) ==
    /\ started' = Append(started, Attempt(strategy, << >>, FALSE))
    /\ stack' = stack
    /\ pc' = "idle"

\* the cscript strategy is about to be called from inside the try of the
\* PowerShell part: no PowerShell candidate was found ("if result is None:")
InvCsInTry == last.op = "InvPowershell" /\ last.exit = "notfound"

\* "except Exception:" of the PowerShell part caught what the cscript strategy
\* raised inside the try: the cscript strategy is called once more
InvCaught(strategy) ==
    /\ started' = Append(started, Attempt(strategy, << >>, FALSE))
    /\ stack' = stack
    /\ pc' = "inv_cs"

InvHelperLog(exe) ==
    IF exe = "oserror" THEN {"warning: helper exe failed to launch for invoke"}
    ELSE IF exe = "nonzero" THEN {"warning: helper exe failed to invoke item"}
    ELSE {}

\* helper exe with "--invoke <name>"; a missing helper is skipped without a record
InvHelper ==
    /\ pc = "inv_helper"
    /\ \E exe \in HelperOutcomes :
         /\ InvReturn("helper", exe = "ok")
         /\ log' = InvHelperLog(exe)
         /\ procs' = IF exe \in {"nonzero", "ok"} THEN <<<<"helper", "--invoke">>>> ELSE << >>
         /\ last' = LastExit("InvHelper", exe, FALSE)
    /\ UNCHANGED <<queued, announced, files, helperMissingLogged, results, invName, tempPath, scriptPath,
                   comtypesLoaded, catalogVars, threads, staTid>>

\* _run_in_sta_thread(action, name="AccessMenuSTA-Invoke") up to the wait
InvCom ==
    /\ pc = "inv_com"
    /\ STAStart("invoke")
    /\ pc' = "inv_com_wait"
    /\ last' = LastRec("InvCom", -1, "none", "none", "none", FALSE)
    /\ procs' = << >>
    /\ log' = {}
    /\ UNCHANGED <<queued, stack, announced, files, helperMissingLogged, results, started,
                   invName, tempPath, scriptPath, comtypesLoaded, catalogVars>>

\* if _run_in_sta_thread(...): return
InvComResume ==
    /\ pc = "inv_com_wait"
    /\ STAWaitOver(threads[staTid])
    /\ InvReturn("com", threads[staTid].ok)
    /\ log' = STALog(threads[staTid])
    /\ threads' = STARelease
    /\ staTid' = 0
    /\ last' = LastRec("InvComResume", -1, "none", "none", "none", FALSE)
    /\ procs' = << >>
    /\ UNCHANGED <<queued, announced, files, helperMissingLogged, results, invName, tempPath,
                   scriptPath, comtypesLoaded, catalogVars>>

\* the PowerShell part of _invoke_god_mode_item_by_name; the cscript strategy
\* it ends with on each failure path is the step InvCscript
InvPsExit(run, rc) ==
    IF run = "notfound" THEN "notfound"
    ELSE IF run = "error" THEN "spawnerror"
    ELSE IF rc # 0 THEN "nonzero"
    ELSE "ok"

InvPsLog(exit) ==
    IF exit = "notfound" THEN {"warning: PowerShell executable not found for invoke"}
    ELSE IF exit = "spawnerror" THEN {"exception: failed to invoke God Mode item via PowerShell"}
    ELSE IF exit = "nonzero" THEN {"warning: PowerShell failed to invoke God Mode item"}
    ELSE {}

InvPowershell ==
    /\ pc = "inv_ps"
    /\ \E run \in RunOutcomes :
       \E rc \in (IF run = "ran" THEN {0, 1} ELSE {0}) :
          LET exit == InvPsExit(run, rc) IN
          /\ InvReturn("powershell", exit = "ok")
          /\ log' = InvPsLog(exit)
          /\ procs' = IF run = "ran"
                      THEN <<<<"powershell", "invoke">>>> ELSE << >>
          /\ last' = LastExit("InvPowershell", exit, FALSE)
    /\ UNCHANGED <<queued, announced, files, helperMissingLogged, results, invName, tempPath, scriptPath,
                   comtypesLoaded, catalogVars, threads, staTid>>

\* _invoke_god_mode_item_by_name_via_cscript
InvCsExit(wr, run, rc) ==
    IF wr # "ok" THEN "writefail"
    ELSE IF run = "notfound" THEN "notfound"
    ELSE IF run = "error" THEN "spawnerror"
    ELSE IF rc # 0 THEN "nonzero"
    ELSE "ok"

\* try ... finally without except: these paths raise to the caller
InvCsRaises(exit) == exit \in {"writefail", "spawnerror"}

\* the records of one call; what the call raises inside the try of the
\* PowerShell part is logged by that part's "except Exception:"
InvCsLog(exit, inTry) ==
    IF exit = "notfound" THEN {"warning: cscript executable not found for invoke"}
    ELSE IF exit = "nonzero" THEN {"warning: cscript failed to invoke God Mode item"}
    ELSE IF InvCsRaises(exit) /\ inTry
    THEN {"exception: failed to invoke God Mode item via PowerShell"}
    ELSE {}

\* finally: try: os.remove(script_path) / except Exception: pass, when the
\* script exists, that is unless open() raised; rm holds the paths whose
\* os.remove raised
InvCscriptCleanup(fs, script, wr, rm) ==
    (fs \ {script}) \cup (IF wr = "fail" THEN {} ELSE {script} \cap rm)

InvCscript ==
    /\ pc = "inv_cs"
    /\ \E wr \in WriteOutcomes :
       \E run \in (IF wr = "ok" THEN RunOutcomes ELSE {"notfound"}) :
       \E rc \in (IF wr = "ok" /\ run = "ran" THEN {0, 1} ELSE {0}) :
          LET exit == InvCsExit(wr, run, rc)
              script == FreshFile(files)
          IN \E rm \in SUBSET (IF wr = "fail" THEN {} ELSE {script}) :
             /\ IF ~InvCsRaises(exit) THEN InvReturn("cscript", exit = "ok")
                ELSE IF InvCsInTry THEN InvCaught("cscript")
                ELSE InvRaise("cscript")
             /\ log' = InvCsLog(exit, InvCsInTry)
             /\ files' = InvCscriptCleanup(FilesDuring(files, 0, script, exit, wr), script, wr, rm)
             /\ scriptPath' = script
             /\ procs' = IF wr = "ok" /\ run = "ran"
                         THEN <<<<"cscript", "invoke">>>> ELSE << >>
             /\ last' = LastCleanup("InvCscript", exit, InvCsRaises(exit), rm)
    /\ UNCHANGED <<queued, announced, helperMissingLogged, results, invName, tempPath, comtypesLoaded, catalogVars,
                   threads, staTid>>

\* ------------------------------------------------------ shortcut catalog
\* everything but the catalog: _build_tree and _flatten_apps touch none of it
uiVars == <<stack, pc, last, procs, announced, log, files, helperMissingLogged,
            results, started, invName, tempPath, scriptPath, comtypesLoaded, threads, staTid,
            queued>>

\* the directory a candidate root names: the two environment variables can
\* have one value, and then both candidates are the directory of the first
RootDir(root) == IF sameDir THEN 1 ELSE root

\* what a candidate root turns out to be: the directory of an earlier
\* candidate is what it was then
StatusesOf(root) == IF RootDir(root) # root THEN {rootsSeen[RootDir(root)]} ELSE RootStatuses

\* whether the two variables name one directory, read by _start_menu_roots
\* when the walk begins: a variable that is not set names none
SameDirChoices(status) ==
    IF walkRoot # 0 THEN {sameDir} ELSE IF status = "unset" THEN {FALSE} ELSE BOOLEAN

\* the directories os.walk can yield next: a subdirectory of the one it is in
\* (top-down), or the top of the next root of _start_menu_roots; a directory
\* walked before has the subdirectories it had then
NextDirs ==
    {[root |-> walkRoot, parts |-> Append(walkParts, d)] :
        d \in {x \in DirNames : /\ walkRoot >= 1
                                /\ ScanRoot(rootsSeen[walkRoot]) = "yield"
                                /\ Len(walkParts) < MaxDepth
                                /\ RootDir(walkRoot) # walkRoot
                                      => Len(walkParts) + 1 < Len(listed)}}
    \cup {[root |-> walkRoot + 1, parts |-> << >>] :
             x \in {y \in {1} : /\ walkRoot < NumRoots
                                /\ ScanRoot("dir") = "yield"
                                /\ "dir" \in StatusesOf(walkRoot + 1)}}

\* os.walk has no directory left in the root it is in: a directory that
\* was walked before is walked as far as it was then
WalkOver ==
    (walkRoot >= 1 /\ RootDir(walkRoot) # walkRoot /\ rootsSeen[walkRoot] = "dir")
        => Len(walkParts) + 1 = Len(listed)

\* _build_tree: one iteration of "for dirpath, dirnames, filenames in os.walk(root)";
\* a directory that was walked before holds the shortcuts it held then (the
\* loop passes over every other file); an exception leaves _build_tree and the
\* tree is lost
WalkDir ==
    /\ catalogPc = "walk"
    /\ \E pos \in NextDirs :
       \E same \in SameDirChoices("dir") :
       \E filenames \in (IF RootDir(pos.root) # pos.root
                         THEN {listed[Len(pos.parts) + 1]}
                         ELSE DirListings(MaxWalkFiles - CountLeaves(menuTree))) :
          LET r == WalkEntry(menuTree, pos.parts, filenames, RootDir(pos.root), pos.parts) IN
          /\ pos.root # walkRoot => WalkOver
          /\ walkRoot' = pos.root
          /\ walkParts' = pos.parts
          /\ menuTree' = IF r.raised THEN menuTree ELSE r.tree
          /\ catalogPc' = IF r.raised THEN "raised" ELSE "walk"
          /\ rootsSeen' = IF pos.root = walkRoot THEN rootsSeen ELSE Append(rootsSeen, "dir")
          /\ sameDir' = same
          /\ listed' = IF same /\ pos.root = 1
                        THEN Append(listed, SelectSeq(filenames, LAMBDA f : Launchable(<<f>>)))
                        ELSE listed
    /\ flatApps' = << >>
    /\ UNCHANGED <<uiVars, favVars>>

\* _build_tree comes to a candidate root that yields no directory: the root
\* is left out by _start_menu_roots or os.walk(root) ends at once
SkipRoot ==
    /\ catalogPc = "walk"
    /\ walkRoot < NumRoots
    /\ WalkOver
    /\ \E status \in StatusesOf(walkRoot + 1) \ {"dir"} :
       \E same \in SameDirChoices(status) :
          /\ rootsSeen' = Append(rootsSeen, status)
          /\ catalogPc' = IF ScanRoot(status) = "raise" THEN "raised" ELSE "walk"
          /\ sameDir' = same
    /\ walkRoot' = walkRoot + 1
    /\ walkParts' = << >>
    /\ flatApps' = << >>
    /\ UNCHANGED <<menuTree, listed>>
    /\ UNCHANGED <<uiVars, favVars>>

\* _build_tree returns the tree and AppsMenuDialog._populate_list (or
\* _open_search_dialog) calls _flatten_apps(tree)
FlattenTree ==
    /\ catalogPc = "walk"
    /\ walkRoot = NumRoots
    /\ WalkOver
    /\ flatApps' = FlattenApps(menuTree, << >>)
    /\ catalogPc' = "done"
    /\ UNCHANGED <<menuTree, walkRoot, walkParts, rootsSeen, sameDir, listed>>
    /\ UNCHANGED <<uiVars, favVars>>

\* one operation of the store has run
FavStep(op, arg, noop, after) ==
    /\ favorites' = after
    /\ favLast' = FavRec(op, arg, noop, favorites)
    /\ favPrev' = favLast

\* FavoritesStore.add(path)
FavAdd ==
    /\ \E path \in FavPaths :
          FavStep("add", path, FALSE, FavAddPath(favorites, path))
    /\ UNCHANGED <<uiVars, walkVars>>

\* FavoritesStore.remove(path)
FavRemove ==
    /\ \E path \in FavPaths :
          FavStep("remove", path, FALSE, FavRemovePath(favorites, path))
    /\ UNCHANGED <<uiVars, walkVars>>

\* FavoritesStore.moveUp(index), index a position of the list
FavMoveUp ==
    /\ \E index \in 0..(Len(favorites) - 1) :
          FavStep("moveUp", index, MoveUpNoop(favorites, index), MoveUp(favorites, index))
    /\ UNCHANGED <<uiVars, walkVars>>

\* FavoritesStore.moveDown(index), index a position of the list
FavMoveDown ==
    /\ \E index \in 0..(Len(favorites) - 1) :
          FavStep("moveDown", index, MoveDownNoop(favorites, index), MoveDown(favorites, index))
    /\ UNCHANGED <<uiVars, walkVars>>

\* ---------------------------------------------------------- specification
Init ==
    /\ stack = << >>
    /\ pc = "idle"
    /\ last = LastRec("init", -1, "none", "none", "none", FALSE)
    /\ procs = << >>
    /\ announced = << >>
    /\ log = {}
    /\ files = {}
    /\ helperMissingLogged = FALSE
    /\ results = << >>
    /\ started = << >>
    /\ invName = None
    /\ tempPath = 0
    /\ scriptPath = 0
    /\ comtypesLoaded \in BOOLEAN
    /\ threads = [t \in 1..MaxThreads |-> NoThread]
    /\ staTid = 0
    /\ queued = << >>
    /\ menuTree = << >>
    /\ walkRoot = 0
    /\ walkParts = << >>
    /\ flatApps = << >>
    /\ catalogPc = "walk"
    /\ rootsSeen = << >>
    /\ sameDir = FALSE
    /\ listed = << >>
    /\ favorites = << >>
    /\ favLast = FavRec("init", -1, FALSE, << >>)
    /\ favPrev = FavRec("init", -1, FALSE, << >>)

Next ==
    \/ ScriptOpenAccessMenu \/ ShowDialog \/ AnnounceDialogCallback
    \/ RootOK \/ RootOKSettings \/ RootCancel
    \/ AppsOK \/ AppsCancel
    \/ PowerOK \/ PowerAnswer \/ PowerCancel \/ ConfirmAndRun \/ ConfirmAnswer
    \/ OnLaunchApp \/ OpenSearchDialog \/ SearchFilter \/ SearchLaunch \/ SearchCancel
    \/ SettingsOK \/ SettingsOKInvoke \/ SettingsCancel
    \/ EnumHelper \/ EnumCom \/ EnumComResume \/ EnumPowershell \/ EnumCscript
    \/ InvHelper \/ InvCom \/ InvComResume \/ InvPowershell \/ InvCscript
    \/ WorkerRun \/ WorkerFinish

Spec == Init /\ [][Next]_vars


\* done.wait() returns: the caller has a worker whose event is set and stops
\* waiting for it, which is the step EnumComResume or InvComResume
CallerWakes ==
    /\ pc \in {"enum_com_wait", "inv_com_wait"}
    /\ STAWaitOver(threads[staTid])
    /\ staTid' = 0

\* the whole program, with a scheduler that runs a thread that can run: the
\* worker's finally and the caller's return from done.wait() are taken once
\* they are possible; the action itself may hang
FairSpec ==
    /\ Init
    /\ [][Next]_vars
    /\ WF_vars(WorkerFinish)
    /\ WF_staTid(CallerWakes)

\* the catalog on its own: the walk of the Start Menu roots and the flattening
\* of the tree it builds, with no dialog open
CatalogInit == Init /\ comtypesLoaded = FALSE

CatalogNext == WalkDir \/ SkipRoot \/ FlattenTree

CatalogSpec == CatalogInit /\ [][CatalogNext]_vars

\* the favorites store on its own
FavoritesInit == Init /\ comtypesLoaded = FALSE

FavoritesNext == FavAdd \/ FavRemove \/ FavMoveUp \/ FavMoveDown

FavoritesSpec == FavoritesInit /\ [][FavoritesNext]_vars

\* ------------------------------------------------------------- properties
LaunchOps == {"AppsOK", "SearchLaunch", "OnLaunchApp"}

CancelOps == {"AppsCancel", "PowerCancel", "SettingsCancel", "SearchCancel"}

EnumOps == {"EnumHelper", "EnumCom", "EnumComResume", "EnumPowershell", "EnumCscript"}

StrategyOps == {"EnumHelper", "EnumComResume", "EnumPowershell", "EnumCscript",
                "InvHelper", "InvComResume", "InvPowershell", "InvCscript"}

EnumOrder == <<"helper", "com", "powershell", "cscript">>

\* the step was taken by the UI thread (a worker step leaves last as it was)
UIStep == threads' = threads \/ staTid' # staTid

\* C1: after a leaf entry of the Apps dialog was selected, whatever the launch
\* did, no dialog remains open
C1_LeafCollapsesSession ==
    (last.op = "AppsOK" /\ last.sel >= 0) => stack = << >>

\* C2: a launch never raises into the event handler, and a launch whose two
\* strategies both failed is reported to the user with an announcement
C2_LaunchNeverRaises ==
    last.op \in LaunchOps =>
        /\ ~last.raised
        /\ (last.sf = "oserror" /\ last.po = "oserror" => announced # << >>)

\* C3: Cancel/Escape on Apps, Power, Settings or Search closes exactly the
\* dialog on top: every dialog beneath stays open as it was, nothing is
\* spawned or announced, no file is touched and no chain is started
C3_CancelPopsOneLevel ==
    [][(last'.op \in CancelOps /\ UIStep) =>
          /\ stack # << >>
          /\ stack' = SubSeq(stack, 1, Len(stack) - 1)
          /\ procs' = << >>
          /\ announced' = << >>
          /\ started' = << >>
          /\ files' = files
          /\ pc' = "idle"]_vars

C3_Witness ==
    /\ last.op = "SettingsCancel"
    /\ Len(stack) = 1
    /\ Top.kind = "Root"

\* C4: a shutdown process is spawned only by the step that takes a yes from
\* the confirmation prompt on top, and it runs the command of the action the
\* prompt asked about; a declined prompt of the Power dialog spawns nothing and
\* closes the prompt alone, with the Power dialog and the Root beneath it open
C4_PowerNeedsYes ==
    [][UIStep =>
          /\ ((\E i \in 1..Len(procs') : procs'[i][1] = "shutdown") =>
                 /\ last'.op \in {"PowerAnswer", "ConfirmAnswer"}
                 /\ last'.answer = "yes"
                 /\ stack # << >>
                 /\ Top.kind = "Prompt"
                 /\ procs' = << <<"shutdown", PowerCommand(Top.items[1][2])>> >>)
          /\ ((last'.op = "PowerAnswer" /\ last'.answer = "no") =>
                 /\ procs' = << >>
                 /\ stack' = SubSeq(stack, 1, Len(stack) - 1)
                 /\ Len(stack') >= 2
                 /\ stack'[Len(stack')].kind = "Power"
                 /\ stack'[Len(stack') - 1].kind = "Root")]_vars

C4_Witness ==
    /\ last.op = "PowerAnswer"
    /\ last.answer = "no"
    /\ procs = << >>
    /\ Len(stack) = 2
    /\ Top.kind = "Power"
    /\ stack[1].kind = "Root"

\* the output of the first strategy of the chain that returned items
FirstOutput(att) ==
    IF \E i \in 1..Len(att) : att[i].out # << >>
    THEN att[CHOOSE i \in 1..Len(att) : att[i].out # << >> /\ \A j \in 1..(i - 1) : att[j].out = << >>].out
    ELSE << >>

\* C5: the enumeration starts helper, COM, PowerShell, cscript in this order,
\* starts a strategy only when every earlier one returned no items, and the
\* Settings dialog it opens shows exactly the output of the first strategy
\* that returned items
C5_FirstSuccessWins ==
    last.op \in EnumOps =>
        /\ Len(started) <= 4
        /\ \A i \in 1..Len(started) : started[i].name = EnumOrder[i]
        /\ \A i \in 1..Len(started) : \A j \in 1..(i - 1) : started[j].out = << >>
        /\ (pc = "idle" /\ ~last.raised) =>
              /\ stack # << >>
              /\ Top.kind = "Settings"
              /\ (FirstOutput(started) # << >> => Top.items = FirstOutput(started))

C5_Witness ==
    /\ last.op = "EnumCscript"
    /\ pc = "idle"
    /\ Len(started) = 4
    /\ Len(started[4].out) = 2
    /\ Top.kind = "Settings"
    /\ Top.items = started[4].out

\* C6: when the PowerShell enumeration strategy has returned, the temporary
\* output file it created no longer exists
C6_PowershellTempDeleted ==
    last.op = "EnumPowershell" => tempPath \notin files

\* C7: when the cscript enumeration strategy has ended, on any path,
\* neither the script it generated nor its temporary output file exists, and
\* when the cscript invocation strategy has ended its generated script does not
\* exist
C7_CscriptFilesDeleted ==
    /\ last.op = "EnumCscript" => (tempPath \notin files /\ scriptPath \notin files)
    /\ last.op = "InvCscript" => scriptPath \notin files

\* C8: no discovery or invocation strategy lets an exception out into the dialog
\* code and the event loop
C8_StrategyNeverRaises ==
    last.op \in StrategyOps => ~last.raised

\* C9: when the action of the COM worker raised during enumeration, the caller
\* logs the captured error, the COM strategy returns no items, nothing is
\* raised, and the chain goes on with the PowerShell strategy
C9_WorkerErrorAbortsOnlyCom ==
    [][(pc = "enum_com_wait" /\ pc' # pc /\ threads[staTid].error) =>
          /\ "exception: STA thread action failed" \in log'
          /\ started' = Append(started, Attempt("com", << >>, FALSE))
          /\ ~last'.raised
          /\ stack' = stack
          /\ pc' = "enum_ps"]_vars

C9_Witness ==
    /\ last.op = "EnumComResume"
    /\ "exception: STA thread action failed" \in log
    /\ pc = "enum_ps"
    /\ Len(started) = 2
    /\ started[2] = Attempt("com", << >>, FALSE)

\* C10: the caller of _run_in_sta_thread takes the result only after its worker
\* stored value or error and set the event; at most one worker is alive at a
\* time; and once the action has returned or raised, the caller resumes
C10_WorkerHandshake ==
    /\ [][(staTid # 0 /\ staTid' = 0) =>
             /\ threads[staTid].pc = "exit"
             /\ threads[staTid].done]_vars
    /\ [](Cardinality({t \in 1..MaxThreads : threads[t].pc \in {"start", "finally"}}) <= 1)
    /\ ((\E t \in 1..MaxThreads : threads[t].pc = "finally") ~> (staTid = 0))

C10_Witness ==
    /\ last.op \in {"EnumComResume", "InvComResume"}
    /\ staTid = 0
    /\ "exception: STA thread action failed" \in log

InvOps == {"InvHelper", "InvCom", "InvComResume", "InvPowershell", "InvCscript"}

\* the steps in which a strategy of the invocation chain ends
InvEndOps == {"InvHelper", "InvComResume", "InvPowershell", "InvCscript"}

\* C11: the invocation chain runs helper, COM worker, PowerShell, cscript in
\* this order, each at most once, a strategy only after every earlier one
\* failed, and the chain is over as soon as one strategy succeeded
C11_InvokeFirstSuccessWins ==
    last.op \in InvOps =>
        /\ Len(started) <= 4
        /\ \A i \in 1..Len(started) : started[i].name = EnumOrder[i]
        /\ \A i \in 1..Len(started) : \A j \in 1..(i - 1) : ~started[j].ok
        /\ (\E i \in 1..Len(started) : started[i].ok) => pc = "idle"
        /\ (pc = "idle" /\ ~last.raised) =>
              (started # << >> /\ (started[Len(started)].ok \/ Len(started) = 4))

\* C12: when all four invocation strategies failed, however each one failed,
\* the chain has returned without raising and without an announcement
C12_AllFailSilent ==
    (last.op \in InvEndOps /\ pc = "idle" /\ Len(started) >= 4
        /\ ~started[Len(started)].ok) =>
        /\ ~last.raised
        /\ announced = << >>

\* C13: when the four discovery strategies all returned no items, the Settings
\* dialog lists the placeholder entry alone; OK on the placeholder starts no
\* chain, spawns nothing and leaves the Settings dialog and the Root open
C13_EmptyPlaceholder ==
    /\ []((last.op = "EnumCscript" /\ pc = "idle" /\ ~last.raised
             /\ \A i \in 1..Len(started) : started[i].out = << >>) =>
              /\ stack # << >>
              /\ Top.kind = "Settings"
              /\ Top.items = << <<EmptyItemLabel, None>> >>)
    /\ [][(pc = "idle" /\ stack # << >> /\ Top.kind = "Settings" /\ UIStep
            /\ last'.op = "SettingsOK" /\ last'.sel >= 0
            /\ Top.items[last'.sel + 1][2] = None) =>
              /\ stack' = stack
              /\ Len(stack) >= 2
              /\ stack[Len(stack) - 1].kind = "Root"
              /\ procs' = << >>
              /\ started' = << >>
              /\ files' = files
              /\ pc' = "idle"]_vars

C13_Witness ==
    /\ last.op = "SettingsOK"
    /\ last.sel = 0
    /\ pc = "idle"
    /\ Len(stack) = 2
    /\ stack[1].kind = "Root"
    /\ Top.kind = "Settings"
    /\ Top.items = << <<EmptyItemLabel, None>> >>
    /\ procs = << >>

\* C14: once the invocation chain started from the Settings dialog is over,
\* whether a strategy succeeded or not, the Settings dialog is closed
C14_InvokeCollapses ==
    (last.op \in InvEndOps /\ pc = "idle") => (stack = << >> \/ Top.kind # "Settings")

\* the targets of all shortcuts of a tree
RECURSIVE LeafPaths(_)
LeafPaths(node) ==
    IF node = << >> THEN {}
    ELSE (IF Head(node).dir THEN LeafPaths(Head(node).val) ELSE {Head(node).val})
         \cup LeafPaths(Tail(node))

\* the dicts of a tree: the top level and every folder below it
RECURSIVE Interiors(_)
Interiors(node) ==
    {node} \cup UNION {Interiors(node[i].val) : i \in {k \in 1..Len(node) : node[k].dir}}

\* the dict of the folder with the given relative parts
RECURSIVE NodeAt(_, _)
NodeAt(node, parts) ==
    IF parts = << >> THEN node
    ELSE NodeAt(node[CHOOSE k \in 1..Len(node) : node[k].name = Head(parts)].val, Tail(parts))

\* the name under which the shortcut with target p sits in its folder
LeafName(node, p) ==
    LET d == NodeAt(node, p.parts) IN
    d[CHOOSE k \in 1..Len(d) : ~d[k].dir /\ d[k].val = p].name

\* every child of old is a child of new under the same name with the same value
RECURSIVE NodePreserved(_, _)
NodePreserved(old, new) ==
    /\ Len(new) >= Len(old)
    /\ \A i \in 1..Len(old) :
          /\ new[i].name = old[i].name
          /\ new[i].dir = old[i].dir
          /\ IF old[i].dir THEN NodePreserved(old[i].val, new[i].val)
             ELSE new[i].val = old[i].val

IsStrictPrefix(x, y) == Len(x) < Len(y) /\ SubSeq(y, 1, Len(x)) = x

\* C15: in the finished tree no shortcut that lies directly in a root shares
\* its case-folded base name with a shortcut of a subdirectory: the root-level
\* one was dropped
C15_RootDuplicateDropped ==
    catalogPc = "done" =>
        \A i \in 1..Len(menuTree) :
           ~menuTree[i].dir =>
              ~\E p \in LeafPaths(menuTree) :
                   /\ p.parts # << >>
                   /\ Casefold(p.base) = Casefold(menuTree[i].val.base)

\* C16: in every folder of the tree a name belongs to one child only; a
\* shortcut sits under its base name or under "base (k)", k >= 2, with the base
\* name and every "base (m)", 2 <= m < k, taken in that folder; and no step of
\* the walk removes, renames or replaces a child that is already there
C16_NamesNeverOverwritten ==
    /\ [](\A node \in Interiors(menuTree) :
            /\ \A i, j \in 1..Len(node) : i # j => node[i].name # node[j].name
            /\ \A i \in 1..Len(node) :
                  ~node[i].dir =>
                     \/ node[i].name = node[i].val.base
                     \/ \E k \in 2..(Len(node) + 1) :
                           /\ node[i].name = Suffixed(node[i].val.base, k)
                           /\ node[i].val.base \in Names(node)
                           /\ \A m \in 2..(k - 1) :
                                 Suffixed(node[i].val.base, m) \in Names(node))
    /\ [][NodePreserved(menuTree, menuTree')]_vars

C16_Witness ==
    /\ catalogPc = "done"
    /\ {<<"a">>, Suffixed(<<"a">>, 2), Suffixed(<<"a">>, 3)} \subseteq Names(menuTree)
    /\ \E i, j \in 1..Len(menuTree) :
          /\ menuTree[i].name = Suffixed(<<"a">>, 2)
          /\ menuTree[j].name = Suffixed(<<"a">>, 3)
          /\ menuTree[i].val.root # menuTree[j].val.root

\* C17: the flattened list has as many entries as the tree has shortcuts, and
\* the target of every shortcut is the target of exactly one entry
C17_FlattenCoversLeaves ==
    catalogPc = "done" =>
        /\ Len(flatApps) = CountLeaves(menuTree)
        /\ \A p \in LeafPaths(menuTree) :
              Cardinality({i \in 1..Len(flatApps) : flatApps[i][2] = p}) = 1

\* the number of shortcuts of a tree whose target is p
RECURSIVE LeavesWith(_, _)
LeavesWith(node, p) ==
    IF node = << >> THEN 0
    ELSE (IF Head(node).dir THEN LeavesWith(Head(node).val, p)
          ELSE IF Head(node).val = p THEN 1 ELSE 0)
         + LeavesWith(Tail(node), p)

\* C17 (amended): the flattened list has as many entries as the tree has
\* shortcuts, and a target is the target of as many entries as shortcuts of
\* the tree hold it: one for a file reached through one root, two for a file
\* of a directory that both roots name
C17_FlattenOneEntryPerLeaf ==
    catalogPc = "done" =>
        /\ Len(flatApps) = CountLeaves(menuTree)
        /\ \A i \in 1..Len(flatApps) : flatApps[i][2] \in LeafPaths(menuTree)
        /\ \A p \in LeafPaths(menuTree) :
              Cardinality({i \in 1..Len(flatApps) : flatApps[i][2] = p})
                 = LeavesWith(menuTree, p)

\* both roots name one directory: its shortcut in a folder is in the tree
\* twice and in the list twice, next to a shortcut of the top level
C17_Witness ==
    /\ catalogPc = "done"
    /\ sameDir
    /\ \E p \in LeafPaths(menuTree) :
          /\ p.parts # << >>
          /\ LeavesWith(menuTree, p) = 2
          /\ Cardinality({i \in 1..Len(flatApps) : flatApps[i][2] = p}) = 2
    /\ \E i \in 1..Len(flatApps) : flatApps[i][2].parts = << >>

\* C18: the display names of the flattened list are pairwise distinct
C18_DisplayNamesDistinct ==
    catalogPc = "done" =>
        \A i, j \in 1..Len(flatApps) : i # j => flatApps[i][1] # flatApps[j][1]

\* C19: a shortcut of the top level is displayed under its bare name, a
\* shortcut of a folder under "name (folder)" with the name of the innermost
\* folder only
C19_InnermostFolderOnly ==
    catalogPc = "done" =>
        \A i \in 1..Len(flatApps) :
           LET p == flatApps[i][2]
               name == LeafName(menuTree, p)
           IN flatApps[i][1] =
                 IF p.parts = << >> THEN name
                 ELSE name \o <<" ", "(">> \o p.parts[Len(p.parts)] \o <<")">>

\* C20: in the flattened list no shortcut of a folder comes before a shortcut
\* that lies deeper below the same folder: the contents of the subfolders
\* come first at every level
C20_FoldersBeforeLeaves ==
    catalogPc = "done" =>
        \A i, j \in 1..Len(flatApps) :
           i < j => ~IsStrictPrefix(flatApps[i][2].parts, flatApps[j][2].parts)

\* the place of an entry in its dict: its insertion order
IndexIn(node, e) == CHOOSE k \in 1..Len(node) : node[k] = e

\* C21: for every folder of the tree, the sorted listing holds each child of
\* the folder exactly once, in ascending order of the case-folded names, and
\* children whose names are equal when case is ignored in insertion order
C21_SortedEntriesStable ==
    \A node \in Interiors(menuTree) :
       LET s == SortedItems(node) IN
       /\ Len(s) = Len(node)
       /\ \A i \in 1..Len(node) : Cardinality({k \in 1..Len(s) : s[k] = node[i]}) = 1
       /\ \A i, j \in 1..Len(s) :
             i < j =>
                /\ ~StrLess(Casefold(s[j].name), Casefold(s[i].name))
                /\ (Casefold(s[i].name) = Casefold(s[j].name) =>
                      IndexIn(node, s[i]) < IndexIn(node, s[j]))

C21_Witness ==
    /\ catalogPc = "done"
    /\ Len(menuTree) = 3
    /\ menuTree[1].name = <<"g">>
    /\ menuTree[2].name = <<"a">>
    /\ menuTree[3].name = <<"A">>
    /\ flatApps[1][1] = <<"a">>
    /\ flatApps[2][1] = <<"A">>
    /\ flatApps[3][1] = <<"g">>

\* C22: after an edit of the search box the list shows exactly the entries
\* whose display name contains the text of the box, case ignored, in the order
\* of the unfiltered list, also for a text with leading or trailing blanks
C22_FilterExactSubstring ==
    (last.op = "SearchFilter" /\ stack # << >> /\ Top.kind = "Search") =>
        Top.items = SelectSeq(Top.apps,
                       LAMBDA item : Contains(Casefold(item[1]), Casefold(last.query)))

\* C22 as amended: after an edit of the search box the list shows exactly the
\* entries whose display name contains the text of the box without its leading
\* and trailing blanks, case ignored, in the order of the unfiltered list; a
\* text of blanks only shows every entry
C22_FilterStrippedSubstring ==
    (last.op = "SearchFilter" /\ stack # << >> /\ Top.kind = "Search") =>
        /\ \A i \in 1..Len(Top.items) :
              /\ Contains(Casefold(Top.items[i][1]), Casefold(Strip(last.query)))
              /\ \E k \in 1..Len(Top.apps) : Top.apps[k] = Top.items[i]
        /\ \A k \in 1..Len(Top.apps) :
              Contains(Casefold(Top.apps[k][1]), Casefold(Strip(last.query))) =>
                 \E i \in 1..Len(Top.items) : Top.items[i] = Top.apps[k]
        /\ \A i, j \in 1..Len(Top.items) :
              i < j => \E k, l \in 1..Len(Top.apps) :
                          k < l /\ Top.apps[k] = Top.items[i] /\ Top.apps[l] = Top.items[j]

C22_Witness ==
    /\ last.op = "SearchFilter"
    /\ last.query = <<"b", " ">>
    /\ Top.kind = "Search"
    /\ Len(Top.apps) = 2
    /\ Len(Top.items) = 1
    /\ Top.items[1][1] = <<"b">>

\* C23: an edit that empties the search box makes the list show the entries
\* the dialog was opened with, in their order, whatever was typed before
C23_EmptyQueryRestores ==
    (last.op = "SearchFilter" /\ last.query = << >> /\ stack # << >> /\ Top.kind = "Search") =>
        /\ Top.items = FlattenApps(Top.tree, << >>)
        /\ Top.apps = FlattenApps(Top.tree, << >>)

C23_Witness ==
    /\ last.op = "SearchFilter"
    /\ last.query = << >>
    /\ last.shown = 1
    /\ Top.kind = "Search"
    /\ Len(Top.items) = 2
    /\ Top.items = Top.apps

\* C24: filtering the filtered list again with the same text changes nothing
C24_FilterIdempotent ==
    (last.op = "SearchFilter" /\ stack # << >> /\ Top.kind = "Search") =>
        Filter(Top.items, last.query) = Top.items

C24_Witness ==
    /\ last.op = "SearchFilter"
    /\ last.query = <<"A">>
    /\ Top.kind = "Search"
    /\ Len(Top.apps) = 2
    /\ Len(Top.items) = 1
    /\ Filter(Top.items, last.query) = Top.items

\* the step that ran last opened the dialog that is now on top
DialogOpened ==
    /\ pc = "idle"
    /\ ~last.raised
    /\ \/ last.op \in {"ShowDialog", "OpenSearchDialog"}
       \/ last.op = "RootOK" /\ last.sel >= 0
       \/ last.op \in EnumOps

\* C25: the step that opens a dialog queues the announcement of that dialog,
\* and the announcement says the title of the dialog, the number of its rows
\* when it has more than one, and its first row, or that it has no rows
C25_OpenAnnounced ==
    /\ DialogOpened =>
          /\ queued # << >>
          /\ queued[Len(queued)] = Callback("announce_dialog", Len(stack))
    /\ last.op = "AnnounceDialog" =>
          /\ announced # << >>
          /\ announced[1].title = ScreenTitle(stack[last.sel].kind)
          /\ (Len(stack[last.sel].items) > 1 => announced[1].count = Len(stack[last.sel].items))
          /\ (Len(stack[last.sel].items) > 0 => announced[1].first = RowText(stack[last.sel], 1))
          /\ (Len(stack[last.sel].items) = 0 => announced[1].noItems)

\* the step that ran last pushed a dialog from the Root dialog
CategoryChosen ==
    /\ pc = "idle"
    /\ ~last.raised
    /\ \/ last.op = "RootOK" /\ last.sel >= 0
       \/ last.op \in EnumOps

\* C26: the Root dialog lists the categories Search, Favorites, Apps, Power,
\* Settings and About, and after one of them was chosen its dialog is on top
\* with the Root dialog open right beneath it
C26_RootOffersAllCategories ==
    /\ (stack # << >> /\ Top.kind = "Root") =>
          {Top.items[i][2] : i \in 1..Len(Top.items)}
             = {"search", "favorites", "apps", "power", "settings", "about"}
    /\ CategoryChosen =>
          /\ Len(stack) >= 2
          /\ Top.kind \in {"Search", "Favorites", "Apps", "Power", "Settings", "About"}
          /\ stack[Len(stack) - 1].kind = "Root"

\* the step that ran last left a submenu by Cancel, or left it open after the
\* placeholder was chosen or a confirmation was declined
SubmenuKept ==
    \/ last.op \in {"AppsCancel", "PowerCancel", "SettingsCancel"}
    \/ last.op = "SettingsOK" /\ last.sel >= 0 /\ pc = "idle"
    \/ last.op = "PowerAnswer" /\ last.answer = "no"

\* the step that ran last closed a Root dialog: by Cancel, by OK without a
\* selection, or by the collapsing action of a submenu
RootClosed ==
    \/ last.op = "RootCancel"
    \/ last.op = "RootOK" /\ last.sel < 0
    \/ last.op = "AppsOK" /\ last.sel >= 0 /\ ~last.raised
    \/ last.op = "PowerAnswer" /\ last.answer = "yes" /\ ~last.raised
    \/ last.op \in InvEndOps /\ pc = "idle" /\ ~last.raised

\* C27: after a submenu was left by Cancel, or kept open by the placeholder or
\* a declined confirmation, a Root dialog is still open; and once a Root dialog
\* has closed, no dialog remains open
C27_SessionEndsWithRoot ==
    /\ SubmenuKept => \E i \in 1..Len(stack) : stack[i].kind = "Root"
    /\ RootClosed => stack = << >>

\* the directories of the candidate roots that yielded a directory
WalkedRoots == {RootDir(r) : r \in {k \in 1..Len(rootsSeen) : rootsSeen[k] = "dir"}}

\* C28: a candidate root that does not exist or cannot be listed is passed
\* over without an exception (an exception only ever comes from inside a root
\* that was walked), every candidate has been considered when the tree is
\* returned, the tree holds shortcuts of walked roots only, and it is empty
\* when no root was usable
C28_UnusableRootSkipped ==
    /\ (walkRoot >= 1 /\ rootsSeen[walkRoot] # "dir") => catalogPc # "raised"
    /\ catalogPc = "done" =>
          /\ Len(rootsSeen) = NumRoots
          /\ \A p \in LeafPaths(menuTree) : p.root \in WalkedRoots
          /\ WalkedRoots = {} => menuTree = << >>

\* the first root could not be listed, the second was walked and its
\* shortcuts are in the returned tree
C28_Witness ==
    /\ catalogPc = "done"
    /\ rootsSeen = <<"unreadable", "dir">>
    /\ \E p \in LeafPaths(menuTree) : p.root = 2

\* whether the relative parts lead through dicts only
RECURSIVE InteriorAt(_, _)
InteriorAt(node, parts) ==
    \/ parts = << >>
    \/ \E i \in 1..Len(node) :
          /\ node[i].name = Head(parts)
          /\ node[i].dir
          /\ InteriorAt(node[i].val, Tail(parts))

\* C30: _build_tree never raises, and the directory os.walk yielded last is a
\* dict of the tree, also when a folder and a shortcut of one parent share a
\* name
C30_SameNameFolderAndLeaf ==
    /\ catalogPc # "raised"
    /\ (walkRoot >= 1 /\ rootsSeen[walkRoot] = "dir") => InteriorAt(menuTree, walkParts)

\* moveUp ran and moved an element, and moveDown ran right after it
UpThenDown ==
    /\ favPrev.op = "moveUp"
    /\ ~favPrev.noop
    /\ favLast.op = "moveDown"

\* C29: moveUp(i) followed by moveDown(i) on the same index i, neither of them
\* a boundary no-op, leaves the favorites in the order they had before
C29_RoundTripSameIndex ==
    (UpThenDown /\ favLast.arg = favPrev.arg /\ ~favLast.noop) =>
       favorites = favPrev.before

\* C29 (amended): moveUp(i) that is not a boundary no-op, followed by
\* moveDown(i - 1), the index the moved element now has, leaves the favorites
\* in the order they had before
C29_RoundTripMovedIndex ==
    (UpThenDown /\ favLast.arg = favPrev.arg - 1) =>
       /\ ~favLast.noop
       /\ favorites = favPrev.before

\* the last of three favorites was moved up and then down again
C29_Witness ==
    /\ UpThenDown
    /\ favPrev.arg = 2
    /\ favLast.arg = 1
    /\ Len(favorites) = 3
    /\ favorites = favPrev.before

\* C31: at most one Root dialog is open at any time, and the Root dialog the
\* activation gesture opens is the only open window
C31_SingleSession ==
    /\ Cardinality({i \in 1..Len(stack) : stack[i].kind = "Root"}) <= 1
    /\ (last.op = "ShowDialog" /\ ~last.raised) => Len(stack) = 1

\* C32: the list box of a search dialog shows the display names of
\* self.filtered in the same order; Launch starts the target of the entry whose
\* display name is the selected row; and with an empty filtered list Launch
\* spawns nothing and leaves the dialog open
C32_ShownIsLaunched ==
    /\ [](\A i \in 1..Len(stack) :
            stack[i].kind = "Search" =>
               /\ Len(stack[i].listBox) = Len(stack[i].items)
               /\ \A k \in 1..Len(stack[i].items) :
                     stack[i].listBox[k] = stack[i].items[k][1])
    /\ [][(last'.op = "SearchLaunch" /\ UIStep) =>
             /\ stack # << >>
             /\ Top.kind = "Search"
             /\ procs' # << >> =>
                   /\ last'.sel >= 0
                   /\ last'.sel < Len(Top.listBox)
                   /\ \E k \in 1..Len(Top.apps) :
                         /\ Top.apps[k][1] = Top.listBox[last'.sel + 1]
                         /\ Top.apps[k][2] = procs'[1][2]
                         /\ Top.apps[k] = Top.items[last'.sel + 1]
             /\ Top.items = << >> =>
                   /\ procs' = << >>
                   /\ stack' = stack]_vars

\* the entry 'b' comes second in the unfiltered list: it was launched from the
\* first row, so the list had been narrowed before
C32_Witness ==
    /\ last.op = "SearchLaunch"
    /\ last.sel = 0
    /\ procs = << <<"startfile", "P1">> >>

\* two entries of the list have names that are equal when case is ignored
HasFoldDuplicate(items) ==
    \E i, j \in 1..Len(items) : i < j /\ Casefold(items[i][1]) = Casefold(items[j][1])

\* C33: whichever strategy returned last, the list the enumeration holds has
\* no two names that are equal when case is ignored
C33_NoFoldDuplicates ==
    (last.op \in {"EnumHelper", "EnumComResume", "EnumPowershell", "EnumCscript"}
       /\ ~last.raised) => ~HasFoldDuplicate(results)

\* C33 as amended: the list the helper strategy returned has no two names that
\* are equal when case is ignored
C33_HelperNoFoldDuplicates ==
    /\ last.op = "EnumHelper" => ~HasFoldDuplicate(results)
    /\ \A i \in 1..Len(started) :
          started[i].name = "helper" => ~HasFoldDuplicate(started[i].out)

\* the helper delivered two names
C33_Witness ==
    /\ last.op = "EnumHelper"
    /\ Len(results) = 2
    /\ started[1].out = results

====
